---- MODULE Spec2Model ----
(***************************************************************************)
(* Lead Intelligence Engine: the scoring orchestrator, the profile         *)
(* assembler and the Streamlit analysis flow (app.py and ui.py variants).  *)
(*                                                                         *)
(* Python dicts are functions from key strings to values.  Values that     *)
(* come from the reasoning backend's JSON are tagged with their JSON type  *)
(* (JInt, JStr, JNull, JObj) because a field may hold any of them.         *)
(***************************************************************************)
EXTENDS Integers, Sequences, FiniteSets, TLC

VARIABLES
    env,                  \* what the sites serve and the backend answers
    variant,              \* "app" (app.py, monolithic) or "ui" (ui.py, modular)
    logged_in,            \* st.session_state.logged_in
    username,             \* st.session_state.username
    user_menu,            \* the page selected in the sidebar option_menu
    scraped_data,         \* st.session_state.scraped_data
    analysis_result,      \* st.session_state.analysis_result
    additional_insights,  \* st.session_state.additional_insights
    analyses,             \* analyses_collection, in insertion order
    result_src,           \* ghost: the profile analysis_result was computed from
    last,                 \* ghost: what the last script run did
    email,                \* st.session_state.email
    otp_stage,            \* st.session_state.otp_stage
    temp_user_data,       \* st.session_state.temp_user_data
    users_collection,     \* users_collection, in insertion order
    otp_collection,       \* otp_collection, in insertion order
    issued,               \* number of documents ever put in otp_collection
    now,                  \* datetime.datetime.now(datetime.UTC), in minutes
    account,              \* ghost: the account the session was admitted as
    owners,               \* ghost: the account that stored each analysis
    fn_in,                \* input of a direct call of analyze_company_profile
    fn_out                \* value that call returned

\* the account state: session fields of authentication_ui, the collections it
\* reads and writes, and the clock
authVars == <<email, otp_stage, temp_user_data, users_collection,
              otp_collection, issued, now, account, owners>>

vars == <<env, variant, logged_in, username, user_menu, scraped_data,
          analysis_result, additional_insights, analyses, result_src, last,
          authVars, fn_in, fn_out>>

sessionVars == <<env, variant, logged_in, username, user_menu, scraped_data,
                 analysis_result, additional_insights, analyses, result_src,
                 last, authVars>>

(***************************************************************************)
(* Bounds                                                                  *)
(***************************************************************************)
\* raw backend scores range over -RawSpan .. 100 + RawSpan, plus -50 and 999
RawSpan == 4
\* the analyses collection holds at most this many documents
MaxAnalyses == 1
\* markup lists at most this many distinct e-mail addresses
MaxEmails == 6
\* a text is made of at most this many pieces, a page has at most this many
\* anchors
MaxPieces == 2
\* seconds counted while a call without a timeout waits; the wait goes on
MaxWait == 3
\* concurrent clients of the database
MaxClients == 2
\* calls of add_user, store_otp and verify_otp in one behaviour
MaxCalls == 5
\* the clock runs from 0 to MaxNow minutes in steps of TickMinutes
MaxNow == 15
TickMinutes == 5
\* one-time passcodes issued in one behaviour of the authentication pages
MaxIssued == 3

(***************************************************************************)
(* Python / JSON values                                                    *)
(***************************************************************************)
None == [None |-> TRUE]

JInt(n) == [t |-> "int", v |-> n]
JStr(s) == [t |-> "str", v |-> s]
JNull == [t |-> "null"]
JObj(d) == [t |-> "obj", v |-> d]

EmptyDict == [k \in {} |-> k]

\* d[k] = v
Put(d, k, v) == [x \in (DOMAIN d) \cup {k} |-> IF x = k THEN v ELSE d[x]]

\* d.setdefault(k, v): only an absent key is filled
SetDefault(d, k, v) == IF k \in DOMAIN d THEN d ELSE Put(d, k, v)

\* d.get(k, dflt)
Get(d, k, dflt) == IF k \in DOMAIN d THEN d[k] ELSE dflt

\* d.update(e)
Update(d, e) ==
    [x \in (DOMAIN d) \cup (DOMAIN e) |-> IF x \in DOMAIN e THEN e[x] ELSE d[x]]

\* the decimal strings the backend is given to send as a quoted score
DecimalStrings == {"80"}
IntOfDecimal(s) == CASE s = "80" -> 80

\* int(v) succeeds: an int, or a string holding a decimal literal
IntConvertible(v) ==
    \/ v.t = "int"
    \/ v.t = "str" /\ v.v \in DecimalStrings

\* int(v) for a convertible v
PyInt(v) == IF v.t = "int" THEN v.v ELSE IntOfDecimal(v.v)

Max(a, b) == IF a > b THEN a ELSE b
Min(a, b) == IF a < b THEN a ELSE b

(***************************************************************************)
(* Text.  A Python str is the sequence of its characters, each a string   *)
(* of length one.                                                          *)
(***************************************************************************)
LowerSeq ==
    <<"a", "b", "c", "d", "e", "f", "g", "h", "i", "j", "k", "l", "m",
      "n", "o", "p", "q", "r", "s", "t", "u", "v", "w", "x", "y", "z">>
UpperSeq ==
    <<"A", "B", "C", "D", "E", "F", "G", "H", "I", "J", "K", "L", "M",
      "N", "O", "P", "Q", "R", "S", "T", "U", "V", "W", "X", "Y", "Z">>

Range(s) == {s[i] : i \in DOMAIN s}

Letters == Range(LowerSeq) \cup Range(UpperSeq)
Digits == {"0", "1", "2", "3", "4", "5", "6", "7", "8", "9"}
\* \s
Whitespace == {" ", "\n", "\t"}
\* \w
WordChars == Letters \cup Digits \cup {"_"}

\* str.lower() of one character
LowerChar(c) ==
    IF c \in Range(UpperSeq)
    THEN LowerSeq[CHOOSE i \in DOMAIN UpperSeq : UpperSeq[i] = c] ELSE c

\* str.lower()
Lower(s) == [i \in DOMAIN s |-> LowerChar(s[i])]

\* str.title(): a letter that follows a letter is lowered, any other letter
\* is raised
Title(s) ==
    LET UpperChar(c) ==
            IF c \in Range(LowerSeq)
            THEN UpperSeq[CHOOSE i \in DOMAIN LowerSeq : LowerSeq[i] = c]
            ELSE c
    IN  [i \in DOMAIN s |->
            IF i > 1 /\ s[i - 1] \in Letters
            THEN LowerChar(s[i]) ELSE UpperChar(s[i])]

\* str.strip()
RECURSIVE Strip(_)
Strip(s) ==
    IF s # <<>> /\ Head(s) \in Whitespace THEN Strip(Tail(s))
    ELSE IF s # <<>> /\ s[Len(s)] \in Whitespace
         THEN Strip(SubSeq(s, 1, Len(s) - 1))
         ELSE s

\* sub occurs in s at position i
OccursAt(sub, s, i) ==
    /\ i + Len(sub) - 1 <= Len(s)
    /\ \A k \in DOMAIN sub : s[i + k - 1] = sub[k]

\* sub in s
Contains(s, sub) == \E i \in 1 .. (Len(s) + 1) : OccursAt(sub, s, i)

\* sep.join(parts)
RECURSIVE Join(_, _)
Join(sep, parts) ==
    IF parts = <<>> THEN <<>>
    ELSE IF Len(parts) = 1 THEN parts[1]
    ELSE parts[1] \o sep \o Join(sep, Tail(parts))

(***************************************************************************)
(* Regular expressions (module re).  A pattern is a sequence of nodes:     *)
(*   [t |-> "set", s |-> S]        one character of the set S              *)
(*   [t |-> "lit", s |-> w, ic |-> b]  the text w (ic: re.IGNORECASE)      *)
(*   [t |-> "wb"]                  \b                                      *)
(*   [t |-> "rep", r |-> p, min |-> m, max |-> n, greedy |-> g]            *)
(*                                 p{m,n}, n = -1 for no upper limit       *)
(*   [t |-> "alt", rs |-> <<p1, .., pk>>]   p1|..|pk                       *)
(*   [t |-> "gs"], [t |-> "ge"]    the parentheses of group 1              *)
(* where p, p1, .. are patterns.  Matching is the backtracking search of   *)
(* re: alternatives in order, greedy repetition longest first, lazy        *)
(* repetition shortest first.                                              *)
(***************************************************************************)
RxSet(S) == [t |-> "set", s |-> S]
RxLit(w, ic) == [t |-> "lit", s |-> w, ic |-> ic]
RxWordBoundary == [t |-> "wb"]
RxRep(p, m, n, greedy) ==
    [t |-> "rep", r |-> p, min |-> m, max |-> n, greedy |-> greedy]
RxOpt(p) == RxRep(p, 0, 1, TRUE)
RxAlt(ps) == [t |-> "alt", rs |-> ps]
RxGroup(p) == <<[t |-> "gs"]>> \o p \o <<[t |-> "ge"]>>
\* $
RxEnd == [t |-> "end"]

NoMatch == [ok |-> FALSE]
\* the group that did not take part in the match
NoGroup == [st |-> 0, en |-> 0]

\* \b at position i of s (i is the position of the next character)
AtWordBoundary(s, i) ==
    LET before == i > 1 /\ s[i - 1] \in WordChars
        after == i <= Len(s) /\ s[i] \in WordChars
    IN  before # after

LitAt(node, s, i) ==
    /\ i + Len(node.s) - 1 <= Len(s)
    /\ \A k \in DOMAIN node.s :
        IF node.ic THEN LowerChar(s[i + k - 1]) = LowerChar(node.s[k])
        ELSE s[i + k - 1] = node.s[k]

\* The first way, in the order of re's search, in which pattern p matches s
\* from position i on; g is group 1 as captured so far.
RECURSIVE MatchAt(_, _, _, _), MatchAlt(_, _, _, _, _)
MatchAt(p, s, i, g) ==
    IF p = <<>> THEN [ok |-> TRUE, en |-> i, g |-> g]
    ELSE LET n == Head(p)
             rest == Tail(p)
         IN  CASE n.t = "set" ->
                    IF i <= Len(s) /\ s[i] \in n.s
                    THEN MatchAt(rest, s, i + 1, g) ELSE NoMatch
               [] n.t = "lit" ->
                    IF LitAt(n, s, i)
                    THEN MatchAt(rest, s, i + Len(n.s), g) ELSE NoMatch
               [] n.t = "wb" ->
                    IF AtWordBoundary(s, i) THEN MatchAt(rest, s, i, g)
                    ELSE NoMatch
               [] n.t = "end" ->
                    IF i = Len(s) + 1 \/ (i = Len(s) /\ s[i] = "\n")
                    THEN MatchAt(rest, s, i, g) ELSE NoMatch
               [] n.t = "gs" -> MatchAt(rest, s, i, [st |-> i, en |-> i])
               [] n.t = "ge" -> MatchAt(rest, s, i, [g EXCEPT !.en = i])
               [] n.t = "alt" -> MatchAlt(n.rs, rest, s, i, g)
               [] n.t = "rep" ->
                    LET again == n.r \o
                                 <<[n EXCEPT !.min = IF @ > 0 THEN @ - 1 ELSE 0,
                                             !.max = IF @ > 0 THEN @ - 1 ELSE @]>>
                                 \o rest
                    IN  IF n.max = 0 THEN MatchAt(rest, s, i, g)
                        ELSE IF n.min > 0 THEN MatchAt(again, s, i, g)
                        ELSE IF n.greedy
                             THEN LET m == MatchAt(again, s, i, g)
                                  IN  IF m.ok THEN m
                                      ELSE MatchAt(rest, s, i, g)
                             ELSE LET m == MatchAt(rest, s, i, g)
                                  IN  IF m.ok THEN m
                                      ELSE MatchAt(again, s, i, g)
MatchAlt(ps, rest, s, i, g) ==
    IF ps = <<>> THEN NoMatch
    ELSE LET m == MatchAt(Head(ps) \o rest, s, i, g)
         IN  IF m.ok THEN m ELSE MatchAlt(Tail(ps), rest, s, i, g)

\* re.search(p, s) from position i on: the leftmost match, as
\* [ok, st, en, g], or NoMatch
SearchFrom(p, s, i) ==
    LET starts == {j \in i .. (Len(s) + 1) : MatchAt(p, s, j, NoGroup).ok}
    IN  IF starts = {} THEN NoMatch
        ELSE LET st == CHOOSE j \in starts : \A k \in starts : j <= k
                 m == MatchAt(p, s, st, NoGroup)
             IN  [ok |-> TRUE, st |-> st, en |-> m.en, g |-> m.g]

\* re.finditer(p, s): the successive non-overlapping matches
RECURSIVE FindIterFrom(_, _, _)
FindIterFrom(p, s, i) ==
    LET m == SearchFrom(p, s, i)
    IN  IF ~m.ok THEN <<>>
        ELSE <<m>> \o FindIterFrom(p, s, IF m.en > m.st THEN m.en ELSE m.en + 1)

\* m.group(0) and m.group(1); findall gives '' for a group that took no part
Group0(s, m) == SubSeq(s, m.st, m.en - 1)
Group1(s, m) ==
    IF m.g = NoGroup THEN <<>> ELSE SubSeq(s, m.g.st, m.g.en - 1)

\* re.findall(p, s) for a pattern without a group, and for one with group 1
FindAll(p, s) ==
    LET ms == FindIterFrom(p, s, 1) IN [k \in DOMAIN ms |-> Group0(s, ms[k])]
FindAllGroup1(p, s) ==
    LET ms == FindIterFrom(p, s, 1) IN [k \in DOMAIN ms |-> Group1(s, ms[k])]

\* re.sub(r'\D', '', s)
DigitsOf(s) == SelectSeq(s, LAMBDA c : c \in Digits)

(***************************************************************************)
(* LeadIntelligenceEngine                                                  *)
(***************************************************************************)
\* __init__: self.model is the GenerativeModel, or None when its
\* construction raised
LeadIntelligenceEngine(init_ok) ==
    [model |-> IF init_ok THEN [model_name |-> "gemini"] ELSE None]

\* str(e) of the exception a response of this kind ends in
ExceptionText(kind) ==
    CASE kind = "raise" -> "backend unavailable"
      [] kind = "garbage" -> "Expecting value"
      [] kind = "array" -> "'list' object has no attribute"

\* mutant: a failed scoring call falls back to a made-up score
ErrorAsFallbackScore(cause) ==
    [lead_score |-> JInt(0), score_breakdown |-> JObj(EmptyDict),
     rationale |-> JStr(cause), priority |-> JStr("Low"),
     risk_level |-> JStr("High"),
     recommended_approach |-> JStr("Manual review required.")]

ErrorResult(cause) ==
    [error |-> JStr("Error during AI content generation: " \o cause)]

\* mutant: the missing model is reported as an error
DegradedAsError == [error |-> JStr("AI model not initialized.")]

DegradedResult ==
    [lead_score |-> JInt(0), score_breakdown |-> JObj(EmptyDict),
     rationale |-> JStr("AI model not initialized."), priority |-> JStr("Low"),
     risk_level |-> JStr("High"),
     recommended_approach |-> JStr("Manual review required.")]

\* mutant: the High threshold is inclusive
PriorityBandInclusive(score) ==
    IF score >= 75 THEN "High" ELSE IF score > 50 THEN "Medium" ELSE "Low"

PriorityBand(score) ==
    IF score > 75 THEN "High" ELSE IF score > 50 THEN "Medium" ELSE "Low"

\* mutant: the Low risk threshold is 80
RiskBandLowAbove80(score) ==
    IF score > 80 THEN "Low" ELSE IF score > 45 THEN "Medium" ELSE "High"

RiskBand(score) ==
    IF score > 70 THEN "Low" ELSE IF score > 45 THEN "Medium" ELSE "High"

\* mutant: the lower bound is forgotten
ClampNoFloor(score) == Min(100, score)

Clamp(score) == Max(0, Min(100, score))

\* mutant: a breakdown is rebuilt from scratch
RepairAnalysisResetsBreakdown(analysis) ==
    LET raw   == Get(analysis, "lead_score", JInt(50))
        score == PyInt(raw)
        a1 == Put(analysis, "lead_score", JInt(Clamp(score)))
        a2 == Put(a1, "priority", JStr(PriorityBand(score)))
        a3 == Put(a2, "risk_level", JStr(RiskBand(score)))
        a4 == SetDefault(a3, "rationale",
                         JStr("No detailed rationale provided by AI."))
        a5 == SetDefault(a4, "recommended_approach",
                         JStr("Generic outreach recommended."))
    IN  Put(a5, "score_breakdown", JObj(EmptyDict))

\* lines 156-163 for a response that json.loads turned into a dict
RepairAnalysis(analysis) ==
    LET raw   == Get(analysis, "lead_score", JInt(50))
        score == PyInt(raw)
        a1 == Put(analysis, "lead_score", JInt(Clamp(score)))
        a2 == Put(a1, "priority", JStr(PriorityBand(score)))
        a3 == Put(a2, "risk_level", JStr(RiskBand(score)))
        a4 == SetDefault(a3, "rationale",
                         JStr("No detailed rationale provided by AI."))
    IN  SetDefault(a4, "recommended_approach",
                   JStr("Generic outreach recommended."))

\* A backend response is one of
\*   [kind |-> "raise"]    generate_content or response.text raised
\*   [kind |-> "garbage"]  the text is not JSON: json.loads raises
\*   [kind |-> "array"]    the text is JSON but not an object: .get raises
\*   [kind |-> "object", obj |-> d]  the text is the JSON object d
\* mutant: analysis['lead_score'] is read without a default
analyze_requires_score(self, company_data, resp) ==
    IF self.model = None THEN DegradedResult
    ELSE IF resp.kind # "object" THEN ErrorResult(ExceptionText(resp.kind))
    ELSE IF "lead_score" \notin DOMAIN resp.obj THEN ErrorResult("'lead_score'")
    ELSE IF ~IntConvertible(resp.obj["lead_score"])
        THEN ErrorResult("int() argument must be a number")
    ELSE RepairAnalysis(resp.obj)

analyze_company_profile(self, company_data, resp) ==
    IF self.model = None THEN DegradedResult
    ELSE IF resp.kind # "object" THEN ErrorResult(ExceptionText(resp.kind))
    ELSE IF ~IntConvertible(Get(resp.obj, "lead_score", JInt(50)))
        THEN ErrorResult("int() argument must be a number")
    ELSE RepairAnalysis(resp.obj)

\* number of generate_content calls analyze_company_profile makes
AnalyzeBackendCalls(self) == IF self.model = None THEN 0 ELSE 1

\* A backend response to the insight prompt has the kinds of the scoring
\* responses.
generate_additional_insights(self, company_data, resp) ==
    IF self.model = None THEN [insights |-> JStr("AI model not initialized.")]
    ELSE IF resp.kind = "object"
        THEN SetDefault(
               SetDefault(
                 SetDefault(resp.obj, "insights",
                            JStr("No additional insights provided.")),
                 "industry_trends", JStr("No industry trends available.")),
               "outreach_strategy", JStr("Generic phone outreach recommended."))
    ELSE [insights |-> JStr("Error generating insights: "
                            \o ExceptionText(resp.kind)),
          industry_trends |-> JStr(""), outreach_strategy |-> JStr("")]

\* number of generate_content calls generate_additional_insights makes
InsightsBackendCalls(self) == IF self.model = None THEN 0 ELSE 1

(***************************************************************************)
(* EnhancedWebScraper                                                      *)
(***************************************************************************)
ExtractionKeys ==
    {"name", "description", "industry", "contact_emails", "phone_numbers",
     "social_media", "technologies", "team_size", "funding_stage"}

\* The value scrape_company_data leaves the caller with when an exception
\* that is no requests.RequestException propagates out of it.
Propagates == [propagates |-> TRUE]

\* mutant: the name is taken from the URL before the page is fetched
scrape_name_first(url_input, fetch) ==
    LET url == IF url_input.scheme = "" THEN "https://" \o url_input.rest
               ELSE url_input.scheme \o url_input.rest
        company_data == [website |-> url, name |-> url_input.rest]
    IN  CASE fetch.kind = "ok" -> Update(company_data, fetch.page)
          [] fetch.kind = "request_exception" ->
                Put(company_data, "error",
                    "Failed to scrape " \o url \o ". Reason: " \o fetch.cause)
          [] fetch.kind = "other_exception" -> [propagates |-> TRUE]

\* url_input is [scheme, rest]: the text typed, split at the end of a leading
\* "http://" or "https://" (scheme = "" when there is none).
\* fetch is the outcome of session.get + raise_for_status + the extractors:
\*   [kind |-> "ok", page |-> the nine extractor results]
\*   [kind |-> "request_exception", cause |-> text of the exception]
\*   [kind |-> "other_exception"]
scrape_company_data(url_input, fetch) ==
    LET url == IF url_input.scheme = "" THEN "https://" \o url_input.rest
               ELSE url_input.scheme \o url_input.rest
        company_data == [website |-> url]
    IN  CASE fetch.kind = "ok" -> Update(company_data, fetch.page)
          [] fetch.kind = "request_exception" ->
                Put(company_data, "error",
                    "Failed to scrape " \o url \o ". Reason: " \o fetch.cause)
          [] fetch.kind = "other_exception" -> Propagates

(***************************************************************************)
(* MongoManager                                                            *)
(***************************************************************************)
\* additional_insights or {}
OrEmpty(d) == IF d = None THEN EmptyDict ELSE d

\* The document store_analysis builds.  src is a ghost field: the profile the
\* analysis_result was computed from.  The timestamp is the insertion order.
AnalysisData(user, company_data, result, insights, src) ==
    [username |-> user, company_data |-> company_data,
     analysis_result |-> result, additional_insights |-> OrEmpty(insights),
     src |-> src]

\* insert_one succeeds (db_ok) or raises, which store_analysis swallows
store_analysis(coll, doc, db_ok) == IF db_ok THEN Append(coll, doc) ELSE coll

\* find({"username": username}).sort("timestamp", DESCENDING)
RECURSIVE Reverse(_)
Reverse(s) == IF s = <<>> THEN <<>> ELSE Append(Reverse(Tail(s)), Head(s))

get_user_analyses(coll, user) ==
    LET mine(d) == d.username = user IN Reverse(SelectSeq(coll, mine))

(***************************************************************************)
(* MongoManager: accounts and one-time passcodes                           *)
(*                                                                         *)
(* A collection is the sequence of its documents in insertion order, the   *)
(* order in which find_one, update_one and delete_one meet them.  The      *)
(* database db is [users, otps, issued]: the two collections and the       *)
(* number of documents ever inserted in otps, from which _id is drawn.     *)
(***************************************************************************)
\* timedelta(minutes=10)
OtpLifetime == 10

\* if otp_record["attempts"] >= 3
MaxAttempts == 3

\* positions of the documents that match {key: value}
Matching(coll, key, value) == {i \in DOMAIN coll : coll[i][key] = value}

First(S) == CHOOSE i \in S : \A j \in S : i <= j

find_one(coll, key, value) ==
    IF Matching(coll, key, value) = {} THEN None
    ELSE coll[First(Matching(coll, key, value))]

delete_many(coll, key, value) ==
    SelectSeq(coll, LAMBDA d : d[key] # value)

\* mutant: nothing is deleted
delete_one_keeps(coll, key, value) == coll

delete_one(coll, key, value) ==
    IF Matching(coll, key, value) = {} THEN coll
    ELSE LET i == First(Matching(coll, key, value))
         IN  SubSeq(coll, 1, i - 1) \o SubSeq(coll, i + 1, Len(coll))

\* update_one with update [op, field, v]: {"$set": {field: v}} or
\* {"$inc": {field: v}}
update_one(coll, key, value, update) ==
    IF Matching(coll, key, value) = {} THEN coll
    ELSE LET i == First(Matching(coll, key, value))
         IN  [coll EXCEPT ![i] =
                [@ EXCEPT ![update.field] =
                    IF update.op = "$inc" THEN @ + update.v ELSE update.v]]

\* bcrypt.hashpw(password, gensalt()) and bcrypt.checkpw
hash_password(password) == [bcrypt |-> password]
check_password(password, hashed) == hashed = hash_password(password)

add_user(db, user, mail, password) ==
    IF find_one(db.users, "username", user) # None
    THEN [db |-> db, result |-> [success |-> FALSE,
                                 message |-> "Username already exists"]]
    ELSE IF find_one(db.users, "email", mail) # None
    THEN [db |-> db, result |-> [success |-> FALSE,
                                 message |-> "Email already registered"]]
    ELSE [db |-> [db EXCEPT !.users =
                     Append(@, [username |-> user, email |-> mail,
                                password_hash |-> hash_password(password),
                                email_verified |-> FALSE])],
          result |-> [success |-> TRUE,
                      message |-> "User created successfully"]]

\* A call of store_otp or verify_otp in progress is a frame
\*   [fn, pc, email, otp, otp_record, result]
\* where pc names the database operation the call performs next, or is
\* "return" once result holds what the call returned.
Frame(fn, pc, mail, otp) ==
    [fn |-> fn, pc |-> pc, email |-> mail, otp |-> otp, otp_record |-> None,
     result |-> None]

Return(frame, result) == [frame EXCEPT !.pc = "return", !.result = result]

\* mutant: the failed attempt being made is not counted
InvalidOtpUncounted(otp_record) ==
    LET remaining_attempts == MaxAttempts - otp_record.attempts
    IN  [success |-> FALSE,
         message |-> "Invalid OTP. " \o ToString(remaining_attempts)
                     \o " attempts remaining"]

\* line 105 computed from the attempts the call read, and the message
InvalidOtp(otp_record) ==
    LET remaining_attempts == MaxAttempts - (otp_record.attempts + 1)
    IN  [success |-> FALSE,
         message |-> "Invalid OTP. " \o ToString(remaining_attempts)
                     \o " attempts remaining"]

\* the next database operation of the call, with the code around it, at time
\* clock
StepCall(frame, db, clock) ==
    CASE frame.pc = "delete_many" ->
           [frame |-> [frame EXCEPT !.pc = "insert_one"],
            db |-> [db EXCEPT !.otps = delete_many(@, "email", frame.email)]]
      [] frame.pc = "insert_one" ->
           [frame |-> Return(frame, TRUE),
            db |-> [db EXCEPT
                      !.issued = @ + 1,
                      !.otps = Append(@, [_id |-> db.issued + 1,
                                          email |-> frame.email,
                                          otp |-> frame.otp,
                                          created_at |-> clock,
                                          expires_at |-> clock + OtpLifetime,
                                          attempts |-> 0])]]
      [] frame.pc = "find_one" ->
           LET otp_record == find_one(db.otps, "email", frame.email)
           IN  [frame |-> IF otp_record = None
                          THEN Return(frame,
                                 [success |-> FALSE,
                                  message |-> "No OTP found for this email"])
                          ELSE [frame EXCEPT !.pc = "check",
                                             !.otp_record = otp_record],
                db |-> db]
      [] frame.pc = "check" ->
           IF clock > frame.otp_record.expires_at
           THEN [frame |-> Return(frame,
                    [success |-> FALSE,
                     message |-> "OTP has expired. Please request a new one"]),
                 db |-> [db EXCEPT
                           !.otps = delete_one(@, "email", frame.email)]]
           ELSE IF frame.otp_record.attempts >= MaxAttempts
           THEN [frame |-> Return(frame,
                    [success |-> FALSE,
                     message |-> "Too many failed attempts. "
                                 \o "Please request a new OTP"]),
                 db |-> [db EXCEPT
                           !.otps = delete_one(@, "email", frame.email)]]
           ELSE IF frame.otp_record.otp = frame.otp
           THEN [frame |-> [frame EXCEPT !.pc = "delete_one"],
                 db |-> [db EXCEPT
                           !.users = update_one(@, "email", frame.email,
                                                [op |-> "$set",
                                                 field |-> "email_verified",
                                                 v |-> TRUE])]]
           ELSE [frame |-> Return(frame, InvalidOtp(frame.otp_record)),
                 db |-> [db EXCEPT
                           !.otps = update_one(@, "email", frame.email,
                                               [op |-> "$inc",
                                                field |-> "attempts",
                                                v |-> 1])]]
      [] frame.pc = "delete_one" ->
           [frame |-> Return(frame,
                        [success |-> TRUE,
                         message |-> "Email verified successfully"]),
            db |-> [db EXCEPT !.otps = delete_one(@, "email", frame.email)]]

\* a call that runs to its return with no other call in between
RECURSIVE RunCall(_, _, _)
RunCall(frame, db, clock) ==
    IF frame.pc = "return" THEN [db |-> db, result |-> frame.result]
    ELSE LET s == StepCall(frame, db, clock)
         IN  RunCall(s.frame, s.db, clock)

store_otp(db, mail, otp, clock) ==
    RunCall(Frame("store_otp", "delete_many", mail, otp), db, clock)

verify_otp(db, mail, otp, clock) ==
    RunCall(Frame("verify_otp", "find_one", mail, otp), db, clock)

\* create_index("expires_at", expireAfterSeconds=0): the server removes a
\* document once its expires_at is reached
Expired(coll, clock) == {i \in DOMAIN coll : coll[i].expires_at <= clock}

(***************************************************************************)
(* EnhancedWebScraper: the extractors                                      *)
(***************************************************************************)
\* list(set(xs))[:n]: the iteration order of a set of str depends on the hash
\* seed of the process, so every arrangement of n (or all) of the members is a
\* possible outcome.
RECURSIVE Arrangements(_, _)
Arrangements(S, n) ==
    IF n = 0 \/ S = {} THEN {<<>>}
    ELSE UNION {{<<x>> \o a : a \in Arrangements(S \ {x}, n - 1)} : x \in S}

\* r'\b[A-Za-z0-9._%+-]+@[A-Za-z0-9.-]+\.[A-Z|a-z]{2,}\b'
EmailPattern ==
    <<RxWordBoundary,
      RxRep(<<RxSet(Letters \cup Digits
                    \cup {".", "_", "%", "+", "-"})>>, 1, -1, TRUE),
      RxLit(<<"@">>, FALSE),
      RxRep(<<RxSet(Letters \cup Digits
                    \cup {".", "-"})>>, 1, -1, TRUE),
      RxLit(<<".">>, FALSE),
      RxRep(<<RxSet(Letters \cup {"|"})>>, 2, -1, TRUE),
      RxWordBoundary>>

\* mutant: the cap of five is forgotten
extract_emails_uncapped(content) ==
    LET found == FindAll(EmailPattern, content)
    IN  Arrangements(Range(found), Len(found))

\* the possible results of _extract_emails
extract_emails(content) ==
    Arrangements(Range(FindAll(EmailPattern, content)), 5)

\* r'(\+?\d{1,3}[-.\s]?)?\(?\d{2,4}\)?[-.\s]?\d{3,5}[-.\s]?\d{3,5}'
phone_pattern ==
    LET sep == RxOpt(<<RxSet({"-", "."} \cup Whitespace)>>)
        digits(m, n) == RxRep(<<RxSet(Digits)>>, m, n, TRUE)
    IN  <<RxOpt(RxGroup(<<RxOpt(<<RxLit(<<"+">>, FALSE)>>),
                          digits(1, 3), sep>>)),
          RxOpt(<<RxLit(<<"(">>, FALSE)>>),
          digits(2, 4),
          RxOpt(<<RxLit(<<")">>, FALSE)>>),
          sep,
          digits(3, 5),
          sep,
          digits(3, 5)>>

\* the loop of _extract_phones over raw_matches
RECURSIVE CleanedPhones(_)
CleanedPhones(raw_matches) ==
    IF raw_matches = <<>> THEN <<>>
    ELSE LET match == Head(raw_matches)
             digits == DigitsOf(match)
         IN  (IF 8 <= Len(digits) /\ Len(digits) <= 15
              THEN <<Strip(match)>> ELSE <<>>)
             \o CleanedPhones(Tail(raw_matches))

\* the possible results of _extract_phones; the pattern has a group, so
\* re.findall returns what group 1 matched
extract_phones(content) ==
    LET raw_matches == FindAllGroup1(phone_pattern, content)
    IN  Arrangements(Range(CleanedPhones(raw_matches)), 3)

Entry(label, keywords) == [label |-> label, keywords |-> keywords]

industry_keywords ==
    <<Entry(<<"E", "d", "u", "c", "a", "t", "i", "o", "n">>,
            <<<<"e", "d", "u", "c", "a", "t", "i", "o", "n">>,
              <<"c", "o", "l", "l", "e", "g", "e">>,
              <<"u", "n", "i", "v", "e", "r", "s", "i", "t", "y">>,
              <<"e", "d", "t", "e", "c", "h">>,
              <<"s", "c", "h", "o", "o", "l">>,
                <<"a", "c", "a", "d", "e", "m", "i", "c">>,
                <<"i", "n", "s", "t", "i", "t", "u", "t", "e">>,
                <<"l", "e", "a", "r", "n", "i", "n", "g">>>>),
      Entry(<<"S", "a", "a", "S">>,
            <<<<"s", "o", "f", "t", "w", "a", "r", "e", " ", "a", "s",
                " ", "a", " ", "s", "e", "r", "v", "i", "c", "e">>,
              <<"s", "a", "a", "s">>, <<"c", "l", "o", "u", "d", " ",
                                        "s", "o", "l", "u", "t", "i",
                                        "o", "n">>>>),
      Entry(<<"F", "i", "n", "T", "e", "c", "h">>,
            <<<<"f", "i", "n", "a", "n", "c", "i", "a", "l", " ", "t",
                "e", "c", "h", "n", "o", "l", "o", "g", "y">>,
              <<"p", "a", "y", "m", "e", "n", "t", "s">>,
              <<"b", "a", "n", "k", "i", "n", "g">>>>),
      Entry(<<"H", "e", "a", "l", "t", "h", "c", "a", "r", "e">>,
            <<<<"h", "e", "a", "l", "t", "h", " ", "t", "e", "c", "h">>,
              <<"m", "e", "d", "i", "c", "a", "l">>, <<"p", "a", "t",
                "i", "e", "n", "t", " ", "c", "a", "r", "e">>,
              <<"b", "i", "o", "t", "e", "c", "h">>,
              <<"h", "o", "s", "p", "i", "t", "a", "l">>>>),
      Entry(<<"E", "-", "c", "o", "m", "m", "e", "r", "c", "e">>,
            <<<<"o", "n", "l", "i", "n", "e", " ", "r", "e", "t", "a",
                "i", "l">>,
              <<"e", "-", "c", "o", "m", "m", "e", "r", "c", "e">>,
              <<"m", "a", "r", "k", "e", "t", "p", "l", "a", "c", "e">>>>),
      Entry(<<"A", "I", "/", "M", "L">>,
            <<<<"a", "r", "t", "i", "f", "i", "c", "i", "a", "l", " ",
                "i", "n", "t", "e", "l", "l", "i", "g", "e", "n", "c",
                "e">>, <<"m", "a", "c", "h", "i", "n", "e", " ", "l",
                         "e", "a", "r", "n", "i", "n", "g">>,
              <<"d", "a", "t", "a", " ", "s", "c", "i", "e", "n", "c",
                "e">>>>),
      Entry(<<"M", "a", "r", "k", "e", "t", "i", "n", "g">>,
            <<<<"d", "i", "g", "i", "t", "a", "l", " ", "m", "a", "r",
                "k", "e", "t", "i", "n", "g">>, <<"s", "e", "o">>, <<
                "a", "d", "v", "e", "r", "t", "i", "s", "i", "n", "g",
                " ", "a", "g", "e", "n", "c", "y">>>>)>>

Unknown == <<"U", "n", "k", "n", "o", "w", "n">>

\* for label, keywords in table.items():
\*     if any(re.search(r'\b' + kw + r'\b', content[, re.IGNORECASE]) ...):
\*         return label
RECURSIVE FirstEntry(_, _, _)
FirstEntry(table, content, ignore_case) ==
    LET keywords == Head(table).keywords
    IN  IF table = <<>> THEN Unknown
        ELSE IF \E k \in DOMAIN keywords :
                    SearchFrom(<<RxWordBoundary,
                                 RxLit(keywords[k], ignore_case),
                                 RxWordBoundary>>, content, 1).ok
             THEN Head(table).label
             ELSE FirstEntry(Tail(table), content, ignore_case)

\* mutant: the taxonomy is searched from its last entry
extract_industry_last_wins(content) ==
    FirstEntry(Reverse(industry_keywords), content, FALSE)

extract_industry(content) == FirstEntry(industry_keywords, content, FALSE)

funding_stages ==
    <<Entry(<<"S", "e", "e", "d", "/", "P", "r", "e", "-", "S", "e",
              "e", "d">>,
            <<<<"s", "e", "e", "d", " ", "r", "o", "u", "n", "d">>,
              <<"p", "r", "e", "-", "s", "e", "e", "d">>, <<"a", "n",
                "g", "e", "l", " ", "i", "n", "v", "e", "s", "t", "m",
                "e", "n", "t">>>>),
      Entry(<<"S", "e", "r", "i", "e", "s", " ", "A">>, <<<<"s", "e",
              "r", "i", "e", "s", " ", "a">>>>),
      Entry(<<"S", "e", "r", "i", "e", "s", " ", "B">>, <<<<"s", "e",
              "r", "i", "e", "s", " ", "b">>>>),
      Entry(<<"S", "e", "r", "i", "e", "s", " ", "C", "+">>, <<<<"s",
              "e", "r", "i", "e", "s", " ", "c">>,
            <<"s", "e", "r", "i", "e", "s", " ", "d">>>>),
      Entry(<<"V", "e", "n", "t", "u", "r", "e", " ", "C", "a", "p",
              "i", "t", "a", "l">>, <<<<"v", "e", "n", "t", "u", "r",
                                        "e", " ", "c", "a", "p", "i",
                                        "t", "a", "l">>,
            <<"b", "a", "c", "k", "e", "d", " ", "b", "y", " ", "v", "c">>>>),
      Entry(<<"A", "c", "q", "u", "i", "r", "e", "d">>, <<<<"a", "c",
              "q", "u", "i", "r", "e", "d", " ", "b", "y">>,
            <<"a", "c", "q", "u", "i", "s", "i", "t", "i", "o", "n">>>>),
      Entry(<<"B", "o", "o", "t", "s", "t", "r", "a", "p", "p", "e", "d">>, <<<<
              "b", "o", "o", "t", "s", "t", "r", "a", "p", "p", "e",
              "d">>,
            <<"s", "e", "l", "f", "-", "f", "u", "n", "d", "e", "d">>>>)>>

estimate_funding_stage(content) == FirstEntry(funding_stages, content, TRUE)

platforms ==
    <<<<"l", "i", "n", "k", "e", "d", "i", "n">>,
      <<"t", "w", "i", "t", "t", "e", "r">>,
      <<"f", "a", "c", "e", "b", "o", "o", "k">>,
      <<"i", "n", "s", "t", "a", "g", "r", "a", "m">>,
      <<"y", "o", "u", "t", "u", "b", "e">>,
      <<"g", "i", "t", "h", "u", "b">>>>

\* for platform in platforms: if platform not in social_links and platform in
\* href: social_links[platform.title()] = a['href']
RECURSIVE LinkPlatforms(_, _, _)
LinkPlatforms(social_links, ps, a_href) ==
    IF ps = <<>> THEN social_links
    ELSE LET platform == Head(ps)
             href == Lower(a_href)
             links == IF platform \notin DOMAIN social_links
                         /\ Contains(href, platform)
                      THEN Put(social_links, Title(platform), a_href)
                      ELSE social_links
         IN  LinkPlatforms(links, Tail(ps), a_href)

\* for a in soup.find_all('a', href=True): ...
RECURSIVE LinkAnchors(_, _)
LinkAnchors(social_links, anchors) ==
    IF anchors = <<>> THEN social_links
    ELSE LinkAnchors(LinkPlatforms(social_links, platforms, Head(anchors)),
                     Tail(anchors))

\* anchors: the href values of soup.find_all('a', href=True), in document order
extract_social_media(anchors) == LinkAnchors(EmptyDict, anchors)

\* r'(?:team of|employees|members|we are|we have)\s*
\*   ([\d,]+(?:\s*to\s*|-)?[\d,]+?)\b', re.IGNORECASE
team_size_pattern ==
    LET spaces == RxRep(<<RxSet(Whitespace)>>, 0, -1, TRUE)
        number(greedy) == RxRep(<<RxSet(Digits \cup {","})>>, 1, -1, greedy)
    IN  <<RxAlt(<< <<RxLit(<<"t", "e", "a", "m", " ", "o", "f">>, TRUE)>>,
                   <<RxLit(<<"e", "m", "p", "l", "o", "y", "e", "e", "s">>,
                           TRUE)>>,
                   <<RxLit(<<"m", "e", "m", "b", "e", "r", "s">>, TRUE)>>,
                   <<RxLit(<<"w", "e", " ", "a", "r", "e">>, TRUE)>>,
                   <<RxLit(<<"w", "e", " ", "h", "a", "v", "e">>, TRUE)>> >>),
          spaces>>
        \o RxGroup(<<number(TRUE),
                     RxOpt(<<RxAlt(<< <<spaces, RxLit(<<"t", "o">>, TRUE),
                                        spaces>>,
                                      <<RxLit(<<"-">>, TRUE)>> >>)>>),
                     number(FALSE)>>)
        \o <<RxWordBoundary>>

size_tiers ==
    <<Entry(<<"1", "-", "1", "0">>, <<<<"1", "-", "1", "0">>,
            <<"s", "m", "a", "l", "l", " ", "t", "e", "a", "m">>,
            <<"s", "t", "a", "r", "t", "u", "p", " ", "t", "e", "a", "m">>>>),
      Entry(<<"1", "1", "-", "5", "0">>, <<<<"1", "1", "-", "5", "0">>>>),
      Entry(<<"5", "1", "-", "2", "0", "0">>, <<<<"5", "1", "-", "2",
              "0", "0">>, <<"m", "i", "d", "-", "s", "i", "z", "e", "d">>>>),
      Entry(<<"2", "0", "1", "-", "5", "0", "0">>, <<<<"2", "0", "1",
              "-", "5", "0", "0">>>>),
      Entry(<<"5", "0", "1", "+">>,
            <<<<"5", "0", "1", "+">>, <<"5", "0", "0", "+">>,
              <<"l", "a", "r", "g", "e", " ", "t", "e", "a", "m">>,
              <<"e", "n", "t", "e", "r", "p", "r", "i", "s", "e">>>>)>>

\* for size, terms in size_tiers.items():
\*     if any(term in content for term in terms): return size
RECURSIVE FirstTier(_, _)
FirstTier(table, content) ==
    IF table = <<>> THEN Unknown
    ELSE IF \E k \in DOMAIN Head(table).keywords :
                Contains(content, Head(table).keywords[k])
         THEN Head(table).label
         ELSE FirstTier(Tail(table), content)

estimate_team_size(content) ==
    LET match == SearchFrom(team_size_pattern, content, 1)
    IN  IF match.ok THEN Strip(Group1(content, match))
        ELSE FirstTier(size_tiers, content)

\* The parsed document (BeautifulSoup) is the record of what the extractors
\* read from it:
\*   og_site_name      content of <meta property="og:site_name">, None if no
\*                     such element
\*   title             text of <title>, None if no such element
\*   meta_description  content of <meta name="description">, None if absent
\*   anchors           href of every <a href=..>, in document order
\*   text              soup.get_text()
\*   html              str(soup)

\* re.sub(sep + '.*', '', name): '.' stops at a newline
RECURSIVE RemoveToLineEnd(_, _)
RemoveToLineEnd(sep, s) ==
    IF ~Contains(s, sep) \/ s = <<>> THEN s
    ELSE LET st == CHOOSE i \in 1 .. Len(s) :
                     /\ OccursAt(sep, s, i)
                     /\ \A j \in 1 .. (i - 1) : ~OccursAt(sep, s, j)
             ends == {j \in (st + Len(sep)) .. Len(s) : s[j] = "\n"}
             en == IF ends = {} THEN Len(s) + 1
                   ELSE CHOOSE j \in ends : \A k \in ends : j <= k
         IN  SubSeq(s, 1, st - 1)
             \o RemoveToLineEnd(sep, SubSeq(s, en, Len(s)))

\* s.replace(old, '')
RECURSIVE Remove(_, _)
Remove(old, s) ==
    IF s = <<>> THEN s
    ELSE IF OccursAt(old, s, 1)
         THEN Remove(old, SubSeq(s, Len(old) + 1, Len(s)))
         ELSE <<Head(s)>> \o Remove(old, Tail(s))

\* s.split(sep)[0] for a one-character sep
RECURSIVE UpTo(_, _)
UpTo(sep, s) ==
    IF s = <<>> \/ Head(s) = sep THEN <<>>
    ELSE <<Head(s)>> \o UpTo(sep, Tail(s))

\* the two re.sub calls of _extract_company_name
CleanName(name) ==
    Strip(RemoveToLineEnd(<<" ", "-", " ">>, Strip(RemoveToLineEnd(<<
                            " ", "|", " ">>, name))))

\* netloc is urlparse(url).netloc
extract_company_name(soup, netloc) ==
    LET og == IF soup.og_site_name = None THEN <<>>
              ELSE CleanName(soup.og_site_name)
        title == IF soup.title = None THEN <<>> ELSE CleanName(soup.title)
    IN  IF og # <<>> THEN og
        ELSE IF title # <<>> THEN title
        ELSE Title(UpTo(".", Remove(<<"w", "w", "w", ".">>, netloc)))

extract_description(soup) ==
    IF soup.meta_description # None /\ soup.meta_description # <<>>
    THEN Strip(soup.meta_description)
    ELSE <<"N", "o", " ", "m", "e", "t", "a", " ", "d", "e", "s", "c",
           "r", "i", "p", "t", "i", "o", "n", " ", "f", "o", "u", "n",
           "d", ".">>

tech_indicators ==
    <<Entry(<<"R", "e", "a", "c", "t">>, <<<<"r", "e", "a", "c", "t",
              ".", "j", "s">>,
            <<"r", "e", "a", "c", "t", "-", "d", "o", "m">>, <<"d", "a",
              "t", "a", "-", "r", "e", "a", "c", "t", "r", "o", "o",
              "t">>>>),
      Entry(<<"A", "n", "g", "u", "l", "a", "r">>, <<<<"a", "n", "g",
              "u", "l", "a", "r", ".", "j", "s">>,
            <<"n", "g", "-", "a", "p", "p">>>>),
      Entry(<<"V", "u", "e", ".", "j", "s">>, <<<<"v", "u", "e", ".",
              "j", "s">>,
            <<"d", "a", "t", "a", "-", "v", "-", "a", "p", "p">>>>),
      Entry(<<"j", "Q", "u", "e", "r", "y">>, <<<<"j", "q", "u", "e",
              "r", "y", ".", "j", "s">>, <<"j", "q", "u", "e", "r", "y",
              ".", "m", "i", "n", ".", "j", "s">>>>),
      Entry(<<"S", "h", "o", "p", "i", "f", "y">>, <<<<"s", "h", "o",
              "p", "i", "f", "y", ".", "c", "o", "m">>, <<"c", "d", "n",
              ".", "s", "h", "o", "p", "i", "f", "y", ".", "c", "o",
              "m">>>>),
      Entry(<<"W", "o", "o", "C", "o", "m", "m", "e", "r", "c", "e">>, <<<<
              "w", "o", "o", "c", "o", "m", "m", "e", "r", "c", "e">>>>),
      Entry(<<"M", "a", "g", "e", "n", "t", "o">>, <<<<"m", "a", "g",
              "e", "n", "t", "o">>>>),
      Entry(<<"B", "i", "g", "C", "o", "m", "m", "e", "r", "c", "e">>, <<<<
              "b", "i", "g", "c", "o", "m", "m", "e", "r", "c", "e">>>>),
      Entry(<<"W", "o", "r", "d", "P", "r", "e", "s", "s">>, <<<<"w",
              "p", "-", "c", "o", "n", "t", "e", "n", "t">>,
            <<"w", "p", "-", "j", "s", "o", "n">>>>),
      Entry(<<"D", "r", "u", "p", "a", "l">>, <<<<"d", "r", "u", "p",
              "a", "l", ".", "j", "s">>, <<"s", "i", "t", "e", "s", "/",
              "d", "e", "f", "a", "u", "l", "t">>>>),
      Entry(<<"J", "o", "o", "m", "l", "a">>, <<<<"j", "o", "o", "m",
              "l", "a">>>>),
      Entry(<<"C", "o", "n", "t", "e", "n", "t", "f", "u", "l">>, <<<<
              "c", "o", "n", "t", "e", "n", "t", "f", "u", "l">>>>),
      Entry(<<"S", "a", "n", "i", "t", "y">>, <<<<"s", "a", "n", "i",
              "t", "y", ".", "i", "o">>>>),
      Entry(<<"G", "o", "o", "g", "l", "e", " ", "A", "n", "a", "l",
              "y", "t", "i", "c", "s">>, <<<<"g", "o", "o", "g", "l",
              "e", "-", "a", "n", "a", "l", "y", "t", "i", "c", "s",
              ".", "c", "o", "m", "/", "a", "n", "a", "l", "y", "t",
              "i", "c", "s", ".", "j", "s">>, <<"g", "t", "a", "g", "(">>>>),
      Entry(<<"H", "u", "b", "S", "p", "o", "t">>, <<<<"j", "s", ".",
              "h", "s", "-", "s", "c", "r", "i", "p", "t", "s", ".",
              "c", "o", "m">>,
            <<"_", "h", "s", "q", ".", "p", "u", "s", "h">>>>),
      Entry(<<"M", "a", "r", "k", "e", "t", "o">>, <<<<"m", "u", "n",
              "c", "h", "k", "i", "n", ".", "j", "s">>>>),
      Entry(<<"S", "e", "g", "m", "e", "n", "t">>, <<<<"c", "d", "n",
              ".", "s", "e", "g", "m", "e", "n", "t", ".", "c", "o",
              "m">>>>),
      Entry(<<"H", "o", "t", "j", "a", "r">>, <<<<"h", "o", "t", "j",
              "a", "r", ".", "c", "o", "m">>, <<"h", "j", "(">>>>),
      Entry(<<"G", "o", "o", "g", "l", "e", " ", "T", "a", "g", " ",
              "M", "a", "n", "a", "g", "e", "r">>, <<<<"g", "o", "o",
              "g", "l", "e", "t", "a", "g", "m", "a", "n", "a", "g",
              "e", "r", ".", "c", "o", "m", "/", "g", "t", "m", ".",
              "j", "s">>>>),
      Entry(<<"N", "o", "d", "e", ".", "j", "s">>, <<<<"n", "o", "d",
              "e", ".", "j", "s">>>>),
      Entry(<<"P", "H", "P">>, <<<<".", "p", "h", "p">>>>),
      Entry(<<"A", "S", "P", ".", "N", "E", "T">>, <<<<".", "a", "s",
              "p", "x">>>>),
      Entry(<<"S", "t", "r", "i", "p", "e">>, <<<<"j", "s", ".", "s",
              "t", "r", "i", "p", "e", ".", "c", "o", "m">>>>),
      Entry(<<"B", "r", "a", "i", "n", "t", "r", "e", "e">>, <<<<"j",
              "s", ".", "b", "r", "a", "i", "n", "t", "r", "e", "e",
              "g", "a", "t", "e", "w", "a", "y", ".", "c", "o", "m">>>>),
      Entry(<<"Z", "e", "n", "d", "e", "s", "k">>, <<<<"z", "e", "n",
              "d", "e", "s", "k", ".", "c", "o", "m">>>>),
      Entry(<<"I", "n", "t", "e", "r", "c", "o", "m">>, <<<<"i", "n",
              "t", "e", "r", "c", "o", "m", ".", "i", "o">>, <<"w", "i",
              "d", "g", "e", "t", ".", "i", "n", "t", "e", "r", "c",
              "o", "m", ".", "i", "o">>>>)>>

\* the loop of _extract_technologies
RECURSIVE FoundTech(_, _)
FoundTech(table, lower_content) ==
    IF table = <<>> THEN <<>>
    ELSE (IF \E k \in DOMAIN Head(table).keywords :
                 Contains(lower_content, Head(table).keywords[k])
          THEN <<Head(table).label>> ELSE <<>>)
         \o FoundTech(Tail(table), lower_content)

\* the possible results of _extract_technologies
extract_technologies(content) ==
    LET found_tech == FoundTech(tech_indicators, Lower(content))
    IN  Arrangements(Range(found_tech), Len(found_tech))

\* The possible values of the dict that scrape_company_data passes to
\* company_data.update: one per order in which the three sets are listed.
ExtractorResults(soup, netloc) ==
    LET html_string == soup.html
        page_text == Lower(soup.text)
    IN  {[name |-> extract_company_name(soup, netloc),
          description |-> extract_description(soup),
          industry |-> extract_industry(page_text),
          contact_emails |-> e, phone_numbers |-> p,
          social_media |-> extract_social_media(soup.anchors),
          technologies |-> t,
          team_size |-> estimate_team_size(page_text),
          funding_stage |-> estimate_funding_stage(page_text)] :
         e \in extract_emails(html_string), p \in extract_phones(html_string),
         t \in extract_technologies(html_string)}

(***************************************************************************)
(* The analysis flow: main_app (app.py) / display_lead_analysis_page (ui.py)*)
(***************************************************************************)
\* mutant: the wrong key is tested
HasFetchError(d) == "fetchError" \in DOMAIN d

\* "error" in d
HasError(d) == "error" \in DOMAIN d

\* mutant: an e-mail address is taken for a contact channel as well
InsightsWantedAnyContact(company_data) ==
    /\ \/ Len(Get(company_data, "contact_emails", <<>>)) > 0
       \/ Len(Get(company_data, "phone_numbers", <<>>)) > 0
    /\ Get(company_data, "industry", "Unknown") # "Unknown"

\* the condition under which main_app asks for additional insights
InsightsWanted(company_data) ==
    /\ Len(Get(company_data, "phone_numbers", <<>>)) > 0
    /\ Get(company_data, "industry", "Unknown") # "Unknown"

\* A run r of the handler carries the session values it has assigned so far and
\* the ghost record of what it invoked:
\*   scraped_data, analysis_result, additional_insights, result_src, analyses,
\*   invoked (set of collaborator names), backend_calls, returned, stored,
\*   store_calls (number of store_analysis calls)

\* mutant: a failed insight call is reported as the request's error
OnScoredInsightFatal(v, user, r, self, ins_resp, db_ok) ==
    LET wanted == v = "app" /\ InsightsWanted(r.scraped_data)
        ins == IF v # "app" THEN r.additional_insights
               ELSE IF wanted
                    THEN generate_additional_insights(self, r.scraped_data,
                                                      ins_resp)
                    ELSE None
        failed == wanted /\ self.model # None /\ ins_resp.kind # "object"
        doc == AnalysisData(user, r.scraped_data, r.analysis_result,
                            IF v = "app" THEN ins ELSE None, r.result_src)
    IN  [r EXCEPT !.additional_insights = ins,
                  !.analysis_result = IF failed THEN [error |-> ins["insights"]]
                                      ELSE @,
                  !.analyses = IF failed THEN @
                               ELSE store_analysis(@, doc, db_ok),
                  !.stored = IF failed THEN @ ELSE doc,
                  !.store_calls = IF failed THEN @ ELSE @ + 1,
                  !.invoked = @ \cup (IF failed THEN {} ELSE {"store_analysis"})
                      \cup
                      (IF wanted THEN {"generate_additional_insights"} ELSE {}),
                  !.backend_calls =
                      @ + (IF wanted THEN InsightsBackendCalls(self) ELSE 0)]

\* the branch taken when scraping and scoring both succeeded
OnScored(v, user, r, self, ins_resp, db_ok) ==
    LET wanted == v = "app" /\ InsightsWanted(r.scraped_data)
        ins == IF v # "app" THEN r.additional_insights
               ELSE IF wanted
                    THEN generate_additional_insights(self, r.scraped_data,
                                                      ins_resp)
                    ELSE None
        doc == AnalysisData(user, r.scraped_data, r.analysis_result,
                            IF v = "app" THEN ins ELSE None, r.result_src)
    IN  [r EXCEPT !.additional_insights = ins,
                  !.analyses = store_analysis(@, doc, db_ok),
                  !.stored = doc,
                  !.store_calls = @ + 1,
                  !.invoked = @ \cup {"store_analysis"} \cup
                      (IF wanted THEN {"generate_additional_insights"} ELSE {}),
                  !.backend_calls =
                      @ + (IF wanted THEN InsightsBackendCalls(self) ELSE 0)]

\* mutant: the result is stored before it is tested for an error
OnScrapedStoresFirst(v, user, r, self, resp, ins_resp, db_ok) ==
    LET res == analyze_company_profile(self, r.scraped_data, resp)
        r1 == [r EXCEPT !.analysis_result = res,
                        !.result_src = r.scraped_data,
                        !.returned = res,
                        !.invoked = @ \cup {"analyze_company_profile"},
                        !.backend_calls = @ + AnalyzeBackendCalls(self)]
    IN  OnScored(v, user, r1, self, ins_resp, db_ok)

\* the branch taken when scraping succeeded
OnScraped(v, user, r, self, resp, ins_resp, db_ok) ==
    LET res == analyze_company_profile(self, r.scraped_data, resp)
        r1 == [r EXCEPT !.analysis_result = res,
                        !.result_src = r.scraped_data,
                        !.returned = res,
                        !.invoked = @ \cup {"analyze_company_profile"},
                        !.backend_calls = @ + AnalyzeBackendCalls(self)]
    IN  IF HasError(res) THEN r1
        ELSE OnScored(v, user, r1, self, ins_resp, db_ok)

\* if submitted and url_input: ...
RunAnalysis(v, user, r0, url_input, fetch, init_ok, resp, ins_resp, db_ok) ==
    LET self == LeadIntelligenceEngine(init_ok)
        company_data == scrape_company_data(url_input, fetch)
        r == [r0 EXCEPT !.invoked = {"scrape_company_data"}]
    IN  IF company_data = Propagates THEN r
        ELSE LET r1 == [r EXCEPT !.scraped_data = company_data]
             IN  IF HasError(company_data) THEN r1
                 ELSE OnScraped(v, user, r1, self, resp, ins_resp, db_ok)

\* if st.session_state.analysis_result and "error" not in ...: display
\* Python truth value of a dict or None
Truthy(d) == d # None /\ DOMAIN d # {}

display_analysis_results ==
    /\ logged_in
    /\ user_menu = "Lead Analysis"
    /\ Truthy(analysis_result)
    /\ ~HasError(analysis_result)

(***************************************************************************)
(* Inputs                                                                  *)
(***************************************************************************)
Menu == {"Lead Analysis", "Search History", "Account Settings"}

UrlAcme == [scheme |-> "", rest |-> "acme.io"]
UrlBeta == [scheme |-> "http://", rest |-> "beta.com"]
UrlInputs == {UrlAcme, UrlBeta}

\* What the nine extractors return for a fetched page.  The session flow is
\* checked for profiles of every shape the scraper's result type allows; what
\* the extractors return for a given markup is the subject of SpecCalls.
Page(name, industry, emails, phones) ==
    [name |-> name, description |-> "No meta description found.",
     industry |-> industry, contact_emails |-> emails,
     phone_numbers |-> phones, social_media |-> EmptyDict,
     technologies |-> <<>>, team_size |-> "Unknown",
     funding_stage |-> "Unknown"]

PageFull == Page("Acme", "SaaS", <<"contact@acme.io">>, <<"+1 415-555-0100">>)
PageEmailOnly == Page("Acme", "SaaS", <<"contact@acme.io">>, <<>>)
PagePhoneOnly == Page("Beta", "Unknown", <<>>, <<"+1 415-555-0100">>)

PageBare == Page("Beta", "SaaS", <<>>, <<>>)

\* the outcomes of fetching url_input in environment e
FetchOutcomes(e, url_input) ==
    {[kind |-> "ok", page |-> p] : p \in e.pages[url_input]}
    \cup {[kind |-> "request_exception", cause |-> c] : c \in e.causes}
    \cup {[kind |-> "other_exception"]}

Absent == [absent |-> TRUE]

\* the dict whose keys are the fields of f that are not Absent
Build(f) == [k \in {x \in DOMAIN f : f[x] # Absent} |-> f[k]]

Failures == {[kind |-> "raise"], [kind |-> "garbage"], [kind |-> "array"]}

Object(d) == [kind |-> "object", obj |-> d]

PartialBreakdown ==
    JObj([Business_Maturity |-> JStr("18/20"), Growth_Potential |-> JStr("15/20")])

RGood ==
    Object([lead_score |-> JInt(82), score_breakdown |-> PartialBreakdown,
            rationale |-> JStr("Strong fit."), priority |-> JStr("Low"),
            recommended_approach |-> JStr("Call the CTO."),
            risk_level |-> JStr("High")])
RNoScore == Object([rationale |-> JStr("Strong fit.")])
RNullScore == Object([lead_score |-> JNull])

RInsights == Object([insights |-> JStr("Expand in EMEA.")])

\* An environment bounds the inputs of one session: the accounts that log in,
\* the pages each site may serve, the ways a fetch may fail, whether the
\* model can be constructed, and the answers the backend may give to the
\* scoring and to the insight prompt.
Environment(users, acme, beta, causes, init_oks, responses, ins_responses) ==
    [users |-> users,
     pages |-> [u \in UrlInputs |-> IF u = UrlAcme THEN acme ELSE beta],
     causes |-> causes, init_oks |-> init_oks, responses |-> responses,
     ins_responses |-> ins_responses]

\* every way the scoring call may end, one page per site
EnvScoring ==
    Environment({"alice"}, {PageFull}, {PageEmailOnly}, {"timeout"}, {TRUE},
                Failures \cup {RGood, RNoScore, RNullScore}, {RInsights})
\* every way the insight call may end
EnvInsights ==
    Environment({"alice"}, {PageFull}, {PagePhoneOnly}, {"timeout"}, {TRUE},
                {RGood}, Failures \cup {RInsights})
\* the model cannot be constructed
EnvDegraded ==
    Environment({"alice"}, {PageFull}, {PageEmailOnly},
                {"timeout", "404 Client Error"}, {FALSE}, {RGood}, {RInsights})
\* every way the fetch may fail
EnvFetch ==
    Environment({"alice"}, {PageEmailOnly}, {PagePhoneOnly},
                {"timeout", "Name or service not known", "Connection refused",
                 "404 Client Error"}, {TRUE}, {RGood}, {RInsights})
\* every kind of page
EnvGating ==
    Environment({"alice"}, {PageFull, PageEmailOnly}, {PagePhoneOnly, PageBare},
                {"timeout"}, {TRUE}, {RGood}, {RInsights})
\* two accounts
EnvSharing ==
    Environment({"alice", "bob"}, {PageFull}, {PageEmailOnly}, {"timeout"},
                {TRUE}, {RGood}, {RInsights})

Environments ==
    {EnvScoring, EnvInsights, EnvDegraded, EnvFetch, EnvGating, EnvSharing}

RawScores == ((0 - RawSpan) .. (100 + RawSpan)) \cup {-50, 999}

ScoreFields ==
    {Absent, JNull, JStr("high")} \cup {JStr(d) : d \in DecimalStrings}
    \cup {JInt(n) : n \in RawScores}
LabelFields == {Absent, JStr("High"), JStr("Low")}
TextFields == {Absent, JNull, JStr(""), JStr("Strong fit.")}

\* the scoring responses of a direct call
ScoreResponses ==
    Failures \cup
    {Object(Build(f)) :
        f \in [lead_score : ScoreFields, priority : LabelFields,
               risk_level : LabelFields, rationale : TextFields,
               recommended_approach : TextFields,
               score_breakdown : {Absent, PartialBreakdown}]}

\* --- inputs of the direct calls of the extractors ---

\* the sequences of at most n members of S
RECURSIVE SeqsUpTo(_, _)
SeqsUpTo(S, n) ==
    IF n = 0 THEN {<<>>}
    ELSE LET shorter == SeqsUpTo(S, n - 1)
         IN  shorter \cup {Append(q, x) : q \in shorter, x \in S}

\* the texts that list at most MaxPieces of the pieces, separated by ', '
Texts(pieces) == {Join(<<",", " ">>, q) : q \in SeqsUpTo(pieces, MaxPieces)}

\* the k-th address: a@x.io, b@x.io, ..
Address(k) == <<LowerSeq[k]>> \o <<"@", "x", ".", "i", "o">>

\* markup that lists some of the addresses, once or twice over
EmailContents ==
    LET listed(S) == SelectSeq([k \in 1 .. MaxEmails |-> k], LAMBDA k : k \in S)
    IN  {Join(<<",", " ">>,
              [i \in 1 .. (Cardinality(S) * n) |->
                  Address(listed(S)[((i - 1) % Cardinality(S)) + 1])]) :
            S \in (SUBSET (1 .. MaxEmails)) \ {{}}, n \in {1, 2}}
        \cup {<<"m", "a", "i", "l", " ", "u", "s">>}

PhoneContents ==
    Texts(
    {<<"+", "1", " ", "4", "1", "5", "-", "5", "5", "5", "-", "0", "1",
       "0", "0">>,
     <<"4", "1", "5", "-", "5", "5", "5", "-", "0", "1", "0", "0">>, <<
       "(", "4", "1", "5", ")", " ", "5", "5", "5", " ", "0", "1", "0",
       "0">>,
     <<"+", "9", "1", " ", "9", "8", "7", "6", "5", " ", "4", "3", "2",
       "1", "0">>, <<"1", "2", "3", "4", "5", "6", "7", "8">>,
       <<"1", "2", "3", "4", "5", "6", "7">>,
     <<"1", "2", "3", "4", "5", "6", "7", "8", "9", "0", "1", "2", "3",
       "4", "5", "6">>, <<"c", "a", "l", "l", " ", "u", "s">>})

IndustryContents ==
    Texts(
    {<<"s", "a", "a", "s">>, <<"S", "a", "a", "S">>,
     <<"p", "a", "y", "m", "e", "n", "t", "s">>, <<"m", "a", "c", "h",
       "i", "n", "e", " ", "l", "e", "a", "r", "n", "i", "n", "g">>,
     <<"m", "a", "r", "k", "e", "t", "p", "l", "a", "c", "e">>,
       <<"s", "a", "a", "s", "y">>, <<"h", "e", "l", "l", "o">>})

FundingContents ==
    Texts(
    {<<"s", "e", "e", "d", " ", "r", "o", "u", "n", "d">>,
     <<"s", "e", "r", "i", "e", "s", " ", "a">>,
     <<"S", "e", "r", "i", "e", "s", " ", "B">>,
     <<"s", "e", "r", "i", "e", "s", " ", "a", "b", "c">>,
     <<"a", "c", "q", "u", "i", "s", "i", "t", "i", "o", "n">>,
       <<"s", "e", "l", "f", "-", "f", "u", "n", "d", "e", "d">>,
       <<"h", "e", "l", "l", "o">>})

TeamContents ==
    Texts(
    {<<"t", "e", "a", "m", " ", "o", "f", " ", "5">>,
     <<"t", "e", "a", "m", " ", "o", "f", " ", "4", "5">>, <<"w", "e",
       " ", "h", "a", "v", "e", " ", "1", "0", " ", "t", "o", " ", "2",
       "0">>,
     <<"e", "m", "p", "l", "o", "y", "e", "e", "s", " ", "1", ",", "2",
       "0", "0">>,
       <<"m", "e", "m", "b", "e", "r", "s", " ", "5", "-", "1", "0">>,
       <<"e", "n", "t", "e", "r", "p", "r", "i", "s", "e">>,
     <<"m", "i", "d", "-", "s", "i", "z", "e", "d">>,
       <<"w", "e", " ", "a", "r", "e", " ", "h", "i", "r", "i", "n", "g">>})

AnchorLists ==
    SeqsUpTo(
    {<<"h", "t", "t", "p", "s", ":", "/", "/", "l", "i", "n", "k", "e",
       "d", "i", "n", ".", "c", "o", "m", "/", "c", "o", "m", "p", "a",
       "n", "y", "/", "a", "c", "m", "e">>, <<"h", "t", "t", "p", "s",
       ":", "/", "/", "L", "i", "n", "k", "e", "d", "I", "n", ".", "c",
       "o", "m", "/", "i", "n", "/", "c", "e", "o">>,
     <<"h", "t", "t", "p", "s", ":", "/", "/", "t", "w", "i", "t", "t",
       "e", "r", ".", "c", "o", "m", "/", "a", "c", "m", "e">>, <<"h",
         "t", "t", "p", "s", ":", "/", "/", "g", "i", "t", "h", "u",
         "b", ".", "c", "o", "m", "/", "a", "c", "m", "e", "/", "t",
         "w", "i", "t", "t", "e", "r">>,
     <<"/", "a", "b", "o", "u", "t">>},
    MaxPieces)

Soup(og_site_name, title, meta_description, anchors, text) ==
    [og_site_name |-> og_site_name, title |-> title,
     meta_description |-> meta_description, anchors |-> anchors,
     text |-> text, html |-> text]

\* a page that is nothing but one line of text
SoupAcme ==
    Soup(None, None, None, <<>>,
         <<"W", "e", " ", "a", "r", "e", " ", "a", " ", "S", "e", "r",
           "i", "e", "s", " ", "A", " ", "S", "a", "a", "S", " ", "s",
           "t", "a", "r", "t", "u", "p", ",", " ", "t", "e", "a", "m",
           " ", "o", "f", " ", "4", "5", ",", " ", "c", "o", "n", "t",
           "a", "c", "t", "@", "a", "c", "m", "e", ".", "i", "o", ",",
           " ", "+", "1", " ", "4", "1", "5", "-", "5", "5", "5", "-",
           "0", "1", "0", "0">>)
SoupBeta ==
    Soup(None, <<"B", "e", "t", "a", " ", "C", "o", "r", "p", " ", "|",
                 " ", "H", "o", "m", "e">>, <<" ", "P", "a", "y", "m",
                 "e", "n", "t", "s", " ", "f", "o", "r", " ", "s", "c",
                 "h", "o", "o", "l", "s", ".", " ">>,
         <<<<"h", "t", "t", "p", "s", ":", "/", "/", "t", "w", "i", "t",
             "t", "e", "r", ".", "c", "o", "m", "/", "b", "e", "t",
             "a">>>>,
         <<"B", "e", "t", "a", " ", "C", "o", "r", "p", ",", " ", "e",
           "n", "t", "e", "r", "p", "r", "i", "s", "e", " ", "p", "a",
           "y", "m", "e", "n", "t", "s", ",", " ", "4", "1", "5", "-",
           "5", "5", "5", "-", "0", "1", "0", "0", ",", " ", "w", "p",
           "-", "c", "o", "n", "t", "e", "n", "t">>)
SoupEmpty == Soup(<<>>, <<>>, <<>>, <<>>, <<>>)

ExtractCalls ==
    {[fn |-> "emails", content |-> c, calls |-> 1] : c \in EmailContents}
    \cup {[fn |-> "phones", content |-> c, calls |-> 1] : c \in PhoneContents}
    \cup {[fn |-> "industry", content |-> c, calls |-> 2] :
            c \in IndustryContents}
    \cup {[fn |-> "funding_stage", content |-> c, calls |-> 2] :
            c \in FundingContents}
    \cup {[fn |-> "team_size", content |-> c, calls |-> 1] :
            c \in TeamContents}
    \cup {[fn |-> "social_media", anchors |-> a, calls |-> 1] :
            a \in AnchorLists}
    \cup {[fn |-> "scrape", url_input |-> UrlAcme, netloc |-> n, soup |-> s,
           calls |-> 1] :
            n \in {<<"a", "c", "m", "e", ".", "i", "o">>, <<"w", "w",
                     "w", ".", "a", "c", "m", "e", ".", "i", "o">>},
            s \in {SoupAcme, SoupBeta, SoupEmpty}}

ROnlyTrends == Object([industry_trends |-> JStr("Consolidation.")])

InsightCalls ==
    {[fn |-> "insights", init_ok |-> i,
      company_data |-> Put(PageFull, "website", "https://acme.io"),
      resp |-> r, calls |-> 1] :
        i \in BOOLEAN, r \in Failures \cup {RInsights, ROnlyTrends}}

(***************************************************************************)
(* State machine of the session                                            *)
(***************************************************************************)
NoRun == [op |-> "other"]

InitSession ==
    /\ env \in Environments
    /\ variant \in {"app", "ui"}
    /\ logged_in = FALSE
    /\ username = ""
    /\ user_menu = "Lead Analysis"
    /\ scraped_data = None
    /\ analysis_result = None
    /\ additional_insights = None
    /\ analyses = <<>>
    /\ result_src = None
    /\ last = NoRun
    /\ email = ""
    /\ otp_stage = FALSE
    /\ temp_user_data = EmptyDict
    /\ users_collection = <<>>
    /\ otp_collection = <<>>
    /\ issued = 0
    /\ now = 0
    /\ account = ""
    /\ owners = <<>>

Init ==
    /\ InitSession
    /\ fn_in = None
    /\ fn_out = None

\* Login of an account whose e-mail address is verified
Login ==
    /\ ~logged_in
    /\ \E u \in env.users :
        /\ logged_in' = TRUE
        /\ username' = u
        /\ account' = u
    /\ user_menu' = "Lead Analysis"
    /\ last' = NoRun
    /\ UNCHANGED <<env, variant, scraped_data, analysis_result, additional_insights,
                   analyses, result_src, fn_in, fn_out>>
    /\ UNCHANGED <<email, otp_stage, temp_user_data, users_collection,
                   otp_collection, issued, now, owners>>

Logout ==
    /\ logged_in
    /\ logged_in' = FALSE
    /\ username' = ""
    /\ analysis_result' = None
    /\ scraped_data' = None
    /\ additional_insights' = None
    /\ result_src' = None
    /\ user_menu' = "Lead Analysis"
    /\ last' = NoRun
    /\ email' = ""
    /\ otp_stage' = (IF variant = "ui" THEN FALSE ELSE otp_stage)
    /\ temp_user_data' = (IF variant = "ui" THEN EmptyDict ELSE temp_user_data)
    /\ account' = ""
    /\ UNCHANGED <<env, variant, analyses, fn_in, fn_out>>
    /\ UNCHANGED <<users_collection, otp_collection, issued, now, owners>>

Navigate ==
    /\ logged_in
    /\ \E m \in Menu \ {user_menu} : user_menu' = m
    /\ last' = NoRun
    /\ UNCHANGED <<env, variant, logged_in, username, scraped_data, analysis_result,
                   additional_insights, analyses, result_src, fn_in, fn_out>>
    /\ UNCHANGED authVars

ClearResults ==
    /\ variant = "app"
    /\ logged_in
    /\ user_menu = "Lead Analysis"
    /\ analysis_result' = None
    /\ scraped_data' = None
    /\ additional_insights' = None
    /\ result_src' = None
    /\ last' = NoRun
    /\ UNCHANGED <<env, variant, logged_in, username, user_menu, analyses, fn_in,
                   fn_out>>
    /\ UNCHANGED authVars

\* An input the run cannot read (the backend's answer when nothing is fetched
\* or the model is None) is fixed to one value of its set.
OnlyIf(read, S) == IF read THEN S ELSE {CHOOSE x \in S : TRUE}

AnalyzeCompany ==
    /\ logged_in
    /\ user_menu = "Lead Analysis"
    /\ \E url_input \in UrlInputs :
        \E fetch \in FetchOutcomes(env, url_input) :
        \E init_ok \in OnlyIf(fetch.kind = "ok", env.init_oks) :
        \E resp \in OnlyIf(fetch.kind = "ok" /\ init_ok, env.responses) :
        \E ins_resp \in OnlyIf(fetch.kind = "ok" /\ init_ok /\ variant = "app",
                               env.ins_responses) :
        \E db_ok \in OnlyIf(fetch.kind = "ok", BOOLEAN) :
        \E r \in {RunAnalysis(variant, username,
                     [scraped_data |-> scraped_data,
                      analysis_result |-> analysis_result,
                      additional_insights |-> additional_insights,
                      result_src |-> result_src, analyses |-> analyses,
                      invoked |-> {}, backend_calls |-> 0, returned |-> None,
                      stored |-> None, store_calls |-> 0],
                     url_input, fetch, init_ok, resp, ins_resp, db_ok)} :
          /\ Len(r.analyses) <= MaxAnalyses
          /\ scraped_data' = r.scraped_data
          /\ analysis_result' = r.analysis_result
          /\ additional_insights' = r.additional_insights
          /\ result_src' = r.result_src
          /\ analyses' = r.analyses
          /\ last' = [op |-> "analyze", fetch |-> fetch.kind,
                      init_ok |-> init_ok,
                      resp |-> IF "analyze_company_profile" \in r.invoked
                               THEN resp ELSE None,
                      ins_resp |-> IF "generate_additional_insights" \in r.invoked
                                   THEN ins_resp ELSE None,
                      invoked |-> r.invoked,
                      backend_calls |-> r.backend_calls,
                      returned |-> r.returned, stored |-> r.stored,
                      store_calls |-> r.store_calls]
          /\ owners' = IF Len(r.analyses) > Len(analyses)
                        THEN Append(owners, account) ELSE owners
    /\ UNCHANGED <<env, variant, logged_in, username, user_menu, fn_in, fn_out>>
    /\ UNCHANGED <<email, otp_stage, temp_user_data, users_collection,
                   otp_collection, issued, now, account>>

ViewSelectedAnalysis ==
    /\ variant = "app"
    /\ logged_in
    /\ user_menu = "Search History"
    /\ LET mine == get_user_analyses(analyses, username)
       IN  \E selected_index \in 1 .. Len(mine) :
             /\ scraped_data' = mine[selected_index].company_data
             /\ analysis_result' = mine[selected_index].analysis_result
             /\ additional_insights' = mine[selected_index].additional_insights
             /\ result_src' = mine[selected_index].src
    /\ last' = NoRun
    /\ UNCHANGED <<env, variant, logged_in, username, user_menu, analyses, fn_in,
                   fn_out>>
    /\ UNCHANGED authVars

Next ==
    \/ Login
    \/ Logout
    \/ Navigate
    \/ ClearResults
    \/ AnalyzeCompany
    \/ ViewSelectedAnalysis

Spec == Init /\ [][Next]_vars

(***************************************************************************)
(* Direct calls of analyze_company_profile                                 *)
(***************************************************************************)
ScoreCalls ==
    [init_ok : BOOLEAN, company_data : {Put(PageFull, "website", "https://acme.io")},
     resp : ScoreResponses]

InitScore ==
    /\ InitSession
    /\ env = EnvScoring
    /\ variant = "app"
    /\ fn_in \in ScoreCalls
    /\ fn_out = None

CallAnalyze ==
    /\ fn_out = None
    /\ fn_out' = analyze_company_profile(LeadIntelligenceEngine(fn_in.init_ok),
                                         fn_in.company_data, fn_in.resp)
    /\ UNCHANGED <<fn_in, sessionVars>>

NextScore == CallAnalyze

SpecScore == InitScore /\ [][NextScore]_vars

(***************************************************************************)
(* Direct calls of the extractors, of scrape_company_data on a parsed      *)
(* page, and of generate_additional_insights.  fn_out is the sequence of   *)
(* the values the calls made so far returned.                              *)
(***************************************************************************)
InitCalls ==
    /\ InitSession
    /\ env = EnvScoring
    /\ variant = "app"
    /\ fn_in \in ExtractCalls \cup InsightCalls
    /\ fn_out = <<>>

\* fn_in names function f, it has not been called fn_in.calls times yet, and
\* this call returns one of the results
Returns(f, results) ==
    /\ fn_in.fn = f
    /\ Len(fn_out) < fn_in.calls
    /\ \E result \in results : fn_out' = Append(fn_out, result)
    /\ UNCHANGED <<fn_in, sessionVars>>

CallExtractEmails ==
    fn_in.fn = "emails" /\ Returns("emails", extract_emails(fn_in.content))
CallExtractPhones ==
    fn_in.fn = "phones" /\ Returns("phones", extract_phones(fn_in.content))
CallExtractIndustry ==
    fn_in.fn = "industry"
    /\ Returns("industry", {extract_industry(fn_in.content)})
CallEstimateFundingStage ==
    fn_in.fn = "funding_stage"
    /\ Returns("funding_stage", {estimate_funding_stage(fn_in.content)})
CallEstimateTeamSize ==
    fn_in.fn = "team_size"
    /\ Returns("team_size", {estimate_team_size(fn_in.content)})
CallExtractSocialMedia ==
    fn_in.fn = "social_media"
    /\ Returns("social_media", {extract_social_media(fn_in.anchors)})
CallScrape ==
    fn_in.fn = "scrape"
    /\ Returns("scrape",
               {scrape_company_data(fn_in.url_input,
                                    [kind |-> "ok", page |-> p]) :
                   p \in ExtractorResults(fn_in.soup, fn_in.netloc)})
CallInsights ==
    fn_in.fn = "insights"
    /\ Returns("insights",
               {generate_additional_insights(
                    LeadIntelligenceEngine(fn_in.init_ok),
                    fn_in.company_data, fn_in.resp)})

NextCalls ==
    \/ CallExtractEmails
    \/ CallExtractPhones
    \/ CallExtractIndustry
    \/ CallEstimateFundingStage
    \/ CallEstimateTeamSize
    \/ CallExtractSocialMedia
    \/ CallScrape
    \/ CallInsights

SpecCalls == InitCalls /\ [][NextCalls]_vars

(***************************************************************************)
(* Two runs of the extractors on the same markup and URL, each in a        *)
(* process of its own: the order in which a set of str is listed is fixed  *)
(* within a process and differs between processes (hash randomisation).    *)
(* fn_out is the sequence of what the runs made so far returned, every     *)
(* list in it read as a set.                                               *)
(***************************************************************************)
RunCalls ==
    {[fn |-> "emails", content |-> c] : c \in EmailContents}
    \cup {[fn |-> "scrape", url_input |-> UrlAcme,
           netloc |-> <<"a", "c", "m", "e", ".", "i", "o">>, soup |-> s] :
            s \in {SoupAcme, SoupBeta, SoupEmpty}}

\* a returned value with every list in it read as a set
AsSets(value) ==
    IF fn_in.fn = "emails" THEN Range(value)
    ELSE [k \in DOMAIN value |->
            IF k \in {"contact_emails", "phone_numbers", "technologies"}
            THEN Range(value[k]) ELSE value[k]]

InitRuns ==
    /\ InitSession
    /\ env = EnvScoring
    /\ variant = "app"
    /\ fn_in \in RunCalls
    /\ fn_out = <<>>

\* one more run returns one of the results
RunReturns(results) ==
    /\ Len(fn_out) < 2
    /\ \E result \in results : fn_out' = Append(fn_out, AsSets(result))
    /\ UNCHANGED <<fn_in, sessionVars>>

RunExtractEmails ==
    fn_in.fn = "emails" /\ RunReturns(extract_emails(fn_in.content))
RunScrape ==
    fn_in.fn = "scrape"
    /\ RunReturns({scrape_company_data(fn_in.url_input,
                                       [kind |-> "ok", page |-> p]) :
                      p \in ExtractorResults(fn_in.soup, fn_in.netloc)})

NextRuns ==
    \/ RunExtractEmails
    \/ RunScrape

SpecRuns == InitRuns /\ [][NextRuns]_vars

(***************************************************************************)
(* Direct calls of add_user, store_otp and verify_otp.  In SpecOtp the     *)
(* calls are made one at a time; in SpecClients each of several clients    *)
(* makes calls, and one database operation of one client is one step.      *)
(* The database answers every operation.  fn_out holds the ghosts:         *)
(*   calls     number of calls made                                        *)
(*   frames    the call each client is in (SpecClients)                    *)
(*   last      the last call: what it was given, the document find_one     *)
(*             met (found), and what it returned (SpecOtp)                 *)
(*   wrong     per _id, the number of wrong codes compared with it         *)
(*   remaining per _id, the N of the last 'Invalid OTP. N attempts         *)
(*             remaining' returned for it                                  *)
(***************************************************************************)
Mails == {"a@x.io", "b@x.io"}
Codes == {"111111", "222222"}
Clients == 1 .. MaxClients

Database == [users |-> users_collection, otps |-> otp_collection,
             issued |-> issued]

\* the collections become those of db
Commit(db) ==
    /\ users_collection' = db.users
    /\ otp_collection' = db.otps
    /\ issued' = db.issued

otherVars == <<env, variant, logged_in, username, user_menu, scraped_data,
               analysis_result, additional_insights, analyses, result_src,
               last, email, otp_stage, temp_user_data, account, owners, fn_in>>

\* the N a message announces
Announced(message) ==
    {n \in (0 - MaxCalls) .. MaxAttempts :
        message = "Invalid OTP. " \o ToString(n) \o " attempts remaining"}

\* the ghosts after a call given otp_record returned result
Counted(ghosts, otp_record, result) ==
    IF Announced(result.message) = {} THEN ghosts
    ELSE LET id == otp_record._id
         IN  [ghosts EXCEPT
                !.wrong = Put(@, id, Get(@, id, 0) + 1),
                !.remaining =
                    Put(@, id, CHOOSE n \in Announced(result.message) : TRUE)]

InitOtp ==
    /\ InitSession
    /\ env = EnvScoring
    /\ variant = "app"
    /\ fn_in = None
    /\ fn_out = [calls |-> 0, last |-> None, wrong |-> EmptyDict,
                 remaining |-> EmptyDict]

CallAddUser ==
    /\ fn_out.calls < MaxCalls
    /\ \E mail \in Mails :
         \E r \in {add_user(Database, "alice", mail, "secret1")} :
           /\ Commit(r.db)
           /\ fn_out' = [fn_out EXCEPT
                           !.calls = @ + 1,
                           !.last = [fn |-> "add_user", email |-> mail,
                                     result |-> r.result]]
    /\ UNCHANGED <<now, otherVars>>

CallStoreOtp ==
    /\ fn_out.calls < MaxCalls
    /\ \E mail \in Mails, otp \in Codes :
         \E r \in {store_otp(Database, mail, otp, now)} :
           /\ Commit(r.db)
           /\ fn_out' = [fn_out EXCEPT
                           !.calls = @ + 1,
                           !.last = [fn |-> "store_otp", email |-> mail,
                                     otp |-> otp, result |-> r.result]]
    /\ UNCHANGED <<now, otherVars>>

CallVerifyOtp ==
    /\ fn_out.calls < MaxCalls
    /\ \E mail \in Mails, otp \in Codes :
         \E r \in {verify_otp(Database, mail, otp, now)} :
           LET found == find_one(otp_collection, "email", mail)
           IN  /\ Commit(r.db)
               /\ fn_out' = [Counted(fn_out, found, r.result) EXCEPT
                               !.calls = @ + 1,
                               !.last = [fn |-> "verify_otp", email |-> mail,
                                         otp |-> otp, found |-> found,
                                         clock |-> now, result |-> r.result]]
    /\ UNCHANGED <<now, otherVars>>

\* time passes
Advance ==
    /\ now + TickMinutes <= MaxNow
    /\ now' = now + TickMinutes
    /\ UNCHANGED <<users_collection, otp_collection, issued, fn_out, otherVars>>

\* the server's TTL monitor removes an expired document
TtlMonitor ==
    /\ \E i \in Expired(otp_collection, now) :
         otp_collection' = SubSeq(otp_collection, 1, i - 1)
                           \o SubSeq(otp_collection, i + 1, Len(otp_collection))
    /\ UNCHANGED <<users_collection, issued, now, fn_out, otherVars>>

NextOtp ==
    \/ CallAddUser
    \/ CallStoreOtp
    \/ CallVerifyOtp
    \/ Advance
    \/ TtlMonitor

SpecOtp == InitOtp /\ [][NextOtp]_vars

\* no call in progress
Idle == [pc |-> "return"]

InitClients ==
    /\ InitSession
    /\ env = EnvScoring
    /\ variant = "app"
    /\ fn_in = None
    /\ fn_out = [calls |-> 0, frames |-> [c \in Clients |-> Idle],
                 wrong |-> EmptyDict, remaining |-> EmptyDict]

\* client c performs the next database operation of the call in frame
Performs(c, frame) ==
    \E s \in {StepCall(frame, Database, now)} :
        /\ Commit(s.db)
        /\ fn_out' = [(IF s.frame.pc = "return" /\ frame.fn = "verify_otp"
                        THEN Counted(fn_out, frame.otp_record, s.frame.result)
                        ELSE fn_out) EXCEPT
                        !.calls = IF fn_out.frames[c].pc = "return"
                                  THEN @ + 1 ELSE @,
                        !.frames = [@ EXCEPT ![c] = s.frame]]
        /\ UNCHANGED <<now, otherVars>>

\* a client calls store_otp: the call reaches its first operation
BeginStoreOtp ==
    /\ fn_out.calls < MaxCalls
    /\ \E c \in Clients, otp \in Codes :
         /\ fn_out.frames[c].pc = "return"
         /\ Performs(c, Frame("store_otp", "delete_many", "a@x.io", otp))

BeginVerifyOtp ==
    /\ fn_out.calls < MaxCalls
    /\ \E c \in Clients, otp \in Codes :
         /\ fn_out.frames[c].pc = "return"
         /\ Performs(c, Frame("verify_otp", "find_one", "a@x.io", otp))

\* a call in progress performs its next operation
Continue ==
    \E c \in Clients :
        /\ fn_out.frames[c].pc # "return"
        /\ Performs(c, fn_out.frames[c])

NextClients ==
    \/ BeginStoreOtp
    \/ BeginVerifyOtp
    \/ Continue
    \/ Advance
    \/ TtlMonitor

SpecClients == InitClients /\ [][NextClients]_vars

(***************************************************************************)
(* The authentication pages (SpecAuth)                                     *)
(*                                                                         *)
(* What is typed into a field is a str, the sequence of its characters;   *)
(* the session and the database hold it as the text it spells.            *)
(***************************************************************************)
RECURSIVE Text(_)
Text(s) == IF s = <<>> THEN "" ELSE Head(s) \o Text(Tail(s))

\* str.isdigit()
IsDigit(s) == s # <<>> /\ \A i \in DOMAIN s : s[i] \in Digits

\* r'^[a-zA-Z0-9._%+-]+@[a-zA-Z0-9.-]+\.[a-zA-Z]{2,}$'
SignUpEmailPattern ==
    <<RxRep(<<RxSet(Letters \cup Digits
                    \cup {".", "_", "%", "+", "-"})>>, 1, -1, TRUE),
      RxLit(<<"@">>, FALSE),
      RxRep(<<RxSet(Letters \cup Digits \cup {".", "-"})>>, 1, -1, TRUE),
      RxLit(<<".">>, FALSE),
      RxRep(<<RxSet(Letters)>>, 2, -1, TRUE),
      RxEnd>>

\* the checks of the sign-up form that come before add_user
SignUpAccepted(new_username, new_email, form) ==
    /\ new_username # <<>> /\ new_email # <<>>
    /\ form.new_password # <<>> /\ form.confirm_password # <<>>
    /\ Len(form.new_password) >= 6
    /\ form.new_password = form.confirm_password
    /\ MatchAt(SignUpEmailPattern, new_email, 1, NoGroup).ok
    /\ form.agree_terms

\* the checks of the OTP form that come before verify_otp
OtpAccepted(otp_input) ==
    otp_input # <<>> /\ Len(otp_input) = 6 /\ IsDigit(otp_input)

\* store_otp whose database operation named by raises, if any, raises: the
\* except branch returns False
TryStoreOtp(db, mail, otp, clock, raises) ==
    LET frame == Frame("store_otp", "delete_many", mail, otp)
    IN  CASE raises = "delete_many" -> [db |-> db, result |-> FALSE]
          [] raises = "insert_one" ->
               [db |-> StepCall(frame, db, clock).db, result |-> FALSE]
          [] OTHER -> store_otp(db, mail, otp, clock)

StoreFaults == {"none", "delete_many", "insert_one"}

\* email_service.generate_otp()
IssuedCodes == {"111111"}

TypedAlice == <<"A", "l", "i", "c", "e">>
TypedBob == <<"b", "o", "b">>
TypedMailA == <<"A", "@", "x", ".", "i", "o">>
TypedMailB == <<"b", "@", "x", ".", "i", "o">>
TypedSecret == <<"s", "e", "c", "r", "e", "t", "1">>

SignUpForm(u, m, p, c, a) ==
    [new_username |-> u, new_email |-> m, new_password |-> p,
     confirm_password |-> c, agree_terms |-> a]

SignUpForms ==
    {SignUpForm(TypedAlice, TypedMailA, TypedSecret, TypedSecret, TRUE),
     SignUpForm(TypedBob, TypedMailB, TypedSecret, TypedSecret, TRUE),
     SignUpForm(TypedBob, TypedMailA, TypedSecret, TypedSecret, TRUE),
     SignUpForm(<<>>, TypedMailB, TypedSecret, TypedSecret, TRUE),
     SignUpForm(TypedBob, <<"b", "@", "x">>, TypedSecret, TypedSecret, TRUE),
     SignUpForm(TypedBob, TypedMailB, <<"s", "h", "o", "r", "t">>,
                <<"s", "h", "o", "r", "t">>, TRUE),
     SignUpForm(TypedBob, TypedMailB, TypedSecret,
                <<"s", "e", "c", "r", "e", "t", "2">>, TRUE),
     SignUpForm(TypedBob, TypedMailB, TypedSecret, TypedSecret, FALSE)}

LoginForms ==
    {[username |-> u, password |-> p] :
        u \in {TypedAlice, TypedBob, <<>>},
        p \in {TypedSecret, <<"s", "h", "o", "r", "t">>, <<>>}}

TypedCodes ==
    {<<"1", "1", "1", "1", "1", "1">>, <<"2", "2", "2", "2", "2", "2">>,
     <<"1", "1", "1", "1", "1">>, <<"1", "1", "1", "1", "1", "a">>, <<>>}

sessionData == <<scraped_data, analysis_result, additional_insights,
                 analyses, result_src, owners, user_menu>>

InitAuth ==
    /\ InitSession
    /\ env = EnvSharing
    /\ fn_in = None
    /\ fn_out = None

\* the Login form is submitted
SubmitLogin ==
    /\ ~logged_in
    /\ \E form \in LoginForms :
         LET name == Text(Lower(form.username))
             password == Text(form.password)
             user == find_one(users_collection, "username", name)
         IN  IF /\ name # "" /\ password # ""
                /\ user # None
                /\ check_password(password, user.password_hash)
                /\ user.email_verified
             THEN /\ logged_in' = TRUE
                  /\ username' = name
                  /\ email' = user.email
                  /\ account' = name
             ELSE UNCHANGED <<logged_in, username, email, account>>
    /\ last' = NoRun
    /\ UNCHANGED <<env, variant, fn_in, fn_out, sessionData, otp_stage,
                   temp_user_data, users_collection, otp_collection, issued,
                   now>>

\* the Create Account form is submitted
SubmitSignUp ==
    /\ ~logged_in
    /\ ~otp_stage
    /\ \E form \in SignUpForms :
         LET new_username == Lower(form.new_username)
             new_email == Lower(form.new_email)
             added == add_user(Database, Text(new_username), Text(new_email),
                               Text(form.new_password))
             created ==
                 /\ SignUpAccepted(new_username, new_email, form)
                 /\ added.result.success
         IN  \E otp \in OnlyIf(created, IssuedCodes) :
             \E raises \in OnlyIf(created, StoreFaults) :
             \E stored \in {TryStoreOtp(added.db, Text(new_email), otp, now,
                                         raises)} :
             \E sent \in OnlyIf(created /\ stored.result, BOOLEAN) :
             IF created
             THEN /\ Commit(stored.db)
                  /\ IF stored.result /\ sent
                     THEN /\ otp_stage' = TRUE
                          /\ temp_user_data' =
                               [username |-> Text(new_username),
                                email |-> Text(new_email)]
                     ELSE UNCHANGED <<otp_stage, temp_user_data>>
             ELSE UNCHANGED <<users_collection, otp_collection, issued,
                              otp_stage, temp_user_data>>
    /\ last' = NoRun
    /\ UNCHANGED <<env, variant, fn_in, fn_out, sessionData, logged_in,
                   username, email, account, now>>

\* the OTP form is submitted with Verify Email
SubmitOtp ==
    /\ ~logged_in
    /\ otp_stage
    /\ \E otp_input \in TypedCodes :
         LET r == verify_otp(Database, temp_user_data["email"],
                             Text(otp_input), now)
         IN  IF ~OtpAccepted(otp_input)
             THEN UNCHANGED <<users_collection, otp_collection, issued,
                              otp_stage, temp_user_data, logged_in, username,
                              email, account>>
             ELSE /\ Commit(r.db)
                  /\ IF r.result.success
                     THEN /\ otp_stage' = FALSE
                          /\ temp_user_data' = EmptyDict
                          /\ logged_in' = TRUE
                          /\ username' =
                               IF variant = "ui" THEN temp_user_data["username"]
                               ELSE Get(temp_user_data', "username", "")
                          /\ email' =
                               IF variant = "ui" THEN temp_user_data["email"]
                               ELSE Get(temp_user_data', "email", "")
                          /\ account' = temp_user_data["username"]
                     ELSE UNCHANGED <<otp_stage, temp_user_data, logged_in,
                                      username, email, account>>
    /\ last' = NoRun
    /\ UNCHANGED <<env, variant, fn_in, fn_out, sessionData, now>>

\* the OTP form is submitted with Resend Code
ResendCode ==
    /\ variant = "app"
    /\ ~logged_in
    /\ otp_stage
    /\ issued < MaxIssued
    /\ \E otp \in IssuedCodes, raises \in StoreFaults :
         Commit(TryStoreOtp(Database, temp_user_data["email"], otp, now,
                            raises).db)
    /\ last' = NoRun
    /\ UNCHANGED <<env, variant, fn_in, fn_out, sessionData, logged_in,
                   username, email, account, otp_stage, temp_user_data, now>>

BackToSignUp ==
    /\ ~logged_in
    /\ otp_stage
    /\ otp_stage' = FALSE
    /\ temp_user_data' = EmptyDict
    /\ last' = NoRun
    /\ UNCHANGED <<env, variant, fn_in, fn_out, sessionData, logged_in,
                   username, email, account, users_collection, otp_collection,
                   issued, now>>

\* the user lets the passcode run out
Wait ==
    /\ now + OtpLifetime + 1 <= MaxNow
    /\ now' = now + OtpLifetime + 1
    /\ UNCHANGED <<users_collection, otp_collection, issued, fn_out, otherVars>>

NextAuth ==
    \/ SubmitLogin
    \/ SubmitSignUp
    \/ SubmitOtp
    \/ ResendCode
    \/ BackToSignUp
    \/ Logout
    \/ Navigate
    \/ ClearResults
    \/ AnalyzeCompany
    \/ ViewSelectedAnalysis
    \/ Wait
    \/ TtlMonitor

SpecAuth == InitAuth /\ [][NextAuth]_vars

(***************************************************************************)
(* One analysis request, call by call, with the time each call waits.      *)
(* fn_in is the request; fn_out is [pc, waited, outcome]: the call the     *)
(* handler is blocked in, the seconds it has waited there, and how the     *)
(* request ended.                                                          *)
(*   fetch     self.session.get(url, timeout=15)                           *)
(*   score     self.model.generate_content(prompt), analyze_company_profile*)
(*   insights  self.model.generate_content(prompt),                        *)
(*             generate_additional_insights                                *)
(* The site and the backend answer when they choose to, or never.          *)
(***************************************************************************)
\* timeout=15
FetchTimeout == 15

Requests ==
    [fn : {"request"}, v : {"app", "ui"}, init_ok : BOOLEAN,
     page : {PageFull, PageEmailOnly}]

Blocked(pc) == [pc |-> pc, waited |-> 0, outcome |-> None]
Done(outcome) == [pc |-> "done", waited |-> 0, outcome |-> outcome]

InitLive ==
    /\ InitSession
    /\ env = EnvScoring
    /\ variant = "app"
    /\ fn_in \in Requests
    /\ fn_out = Blocked("fetch")

\* what follows a scoring result in the handler
AfterScore(res) ==
    IF HasError(res) THEN Done("error")
    ELSE IF fn_in.v = "app" /\ InsightsWanted(fn_in.page)
         THEN IF fn_in.init_ok THEN Blocked("insights") ELSE Done("result")
         ELSE Done("result")

\* a second passes while the handler is blocked in a call; requests counts
\* up to its timeout, generate_content is given none
Tick ==
    /\ fn_out.pc \in {"fetch", "score", "insights"}
    /\ fn_out.waited < (IF fn_out.pc = "fetch" THEN FetchTimeout ELSE MaxWait)
    /\ fn_out' = [fn_out EXCEPT !.waited = @ + 1]
    /\ UNCHANGED <<fn_in, sessionVars>>

\* the site answers, with a page or with a failure, or the connection fails
FetchResponds ==
    /\ fn_out.pc = "fetch"
    /\ fn_out.waited < FetchTimeout
    /\ \E fetch \in {[kind |-> "ok", page |-> fn_in.page],
                     [kind |-> "request_exception",
                      cause |-> "404 Client Error"]} :
         LET company_data == scrape_company_data(UrlAcme, fetch)
         IN  fn_out' = IF HasError(company_data) THEN Done("error")
                       ELSE IF fn_in.init_ok THEN Blocked("score")
                       ELSE AfterScore(DegradedResult)
    /\ UNCHANGED <<fn_in, sessionVars>>

\* requests raises Timeout, a RequestException
FetchTimesOut ==
    /\ fn_out.pc = "fetch"
    /\ fn_out.waited = FetchTimeout
    /\ fn_out' =
         (IF HasError(scrape_company_data(UrlAcme,
                          [kind |-> "request_exception", cause |-> "timeout"]))
          THEN Done("error") ELSE Blocked("score"))
    /\ UNCHANGED <<fn_in, sessionVars>>

\* the backend answers the scoring prompt
ScoreResponds ==
    /\ fn_out.pc = "score"
    /\ \E resp \in Failures \cup {RGood} :
         fn_out' = AfterScore(analyze_company_profile(
                                  LeadIntelligenceEngine(fn_in.init_ok),
                                  fn_in.page, resp))
    /\ UNCHANGED <<fn_in, sessionVars>>

\* the backend answers the insight prompt
InsightsResponds ==
    /\ fn_out.pc = "insights"
    /\ \E resp \in Failures \cup {RInsights} : fn_out' = Done("result")
    /\ UNCHANGED <<fn_in, sessionVars>>

NextLive ==
    \/ Tick
    \/ FetchResponds
    \/ FetchTimesOut
    \/ ScoreResponds
    \/ InsightsResponds

\* Time passes and an expired timeout is raised; nothing obliges the site or
\* the backend to answer.
SpecLive ==
    /\ InitLive
    /\ [][NextLive]_vars
    /\ WF_vars(Tick)
    /\ WF_vars(FetchTimesOut)

(***************************************************************************)
(* Properties                                                              *)
(***************************************************************************)
Called == fn_out # None
Scored == last.op = "analyze" /\ "analyze_company_profile" \in last.invoked
Asked == last.op = "analyze" /\ "generate_additional_insights" \in last.invoked
Stored == last.op = "analyze" /\ "store_analysis" \in last.invoked

\* a non-empty string
IsText(v) == v.t = "str" /\ v.v # ""

\* C1: whatever integer the backend supplies, a response that parses and is
\* returned without an 'error' key carries an integer lead_score in 0..100.
C1_ScoreInRange ==
    (Called /\ fn_in.init_ok /\ fn_in.resp.kind = "object" /\ ~HasError(fn_out))
        => /\ "lead_score" \in DOMAIN fn_out
           /\ fn_out["lead_score"].t = "int"
           /\ fn_out["lead_score"].v \in 0 .. 100

C1_Witness ==
    /\ Called
    /\ fn_in.resp.kind = "object"
    /\ Get(fn_in.resp.obj, "lead_score", JNull) = JInt(999)
    /\ fn_in.init_ok
    /\ fn_out["lead_score"] = JInt(100)

\* C2: priority and risk_level of a returned LeadScore are the fixed bands of
\* the clamped score c = max(0, min(100, s)) stored in lead_score, whatever
\* labels the backend sent: High above 75, Medium above 50, else Low; risk Low
\* above 70, Medium above 45, else High.
C2_BandsFromClampedScore ==
    (Called /\ fn_in.init_ok /\ fn_in.resp.kind = "object" /\ ~HasError(fn_out))
        => LET s == Get(fn_in.resp.obj, "lead_score", JInt(50))
               c == fn_out["lead_score"].v
           IN  /\ s.t = "int" =>
                     c = (IF s.v < 0 THEN 0 ELSE IF s.v > 100 THEN 100 ELSE s.v)
               /\ fn_out["priority"] =
                     JStr(IF c > 75 THEN "High"
                          ELSE IF c > 50 THEN "Medium" ELSE "Low")
               /\ fn_out["risk_level"] =
                     JStr(IF c > 70 THEN "Low"
                          ELSE IF c > 45 THEN "Medium" ELSE "High")

C2_Witness ==
    /\ Called
    /\ fn_in.init_ok
    /\ fn_in.resp.kind = "object"
    /\ Get(fn_in.resp.obj, "lead_score", JNull) = JInt(76)
    /\ Get(fn_in.resp.obj, "priority", JNull) = JStr("Low")
    /\ Get(fn_in.resp.obj, "risk_level", JNull) = JStr("High")
    /\ fn_out["priority"] = JStr("High")
    /\ fn_out["risk_level"] = JStr("Low")

\* C3: with self.model None the engine returns, without a backend call, the
\* complete degraded result (score 0, empty breakdown, a rationale, Low, High,
\* an approach, no 'error' key), and the flow stores and displays it.
C3_DegradedIsResult ==
    (Scored /\ ~last.init_ok)
        => /\ last.backend_calls = 0
           /\ DOMAIN analysis_result =
                {"lead_score", "score_breakdown", "rationale", "priority",
                 "risk_level", "recommended_approach"}
           /\ analysis_result["lead_score"] = JInt(0)
           /\ analysis_result["score_breakdown"] = JObj(EmptyDict)
           /\ IsText(analysis_result["rationale"])
           /\ analysis_result["priority"] = JStr("Low")
           /\ analysis_result["risk_level"] = JStr("High")
           /\ IsText(analysis_result["recommended_approach"])
           /\ Stored
           /\ last.stored.analysis_result = analysis_result
           /\ display_analysis_results

C3_Witness ==
    /\ Scored
    /\ ~last.init_ok
    /\ analysis_result["rationale"] = JStr("AI model not initialized.")

\* C4: a failed fetch yields a profile with exactly the keys website and error,
\* and the request invokes neither analyze_company_profile nor
\* generate_additional_insights nor store_analysis.
C4_FetchFailureShortCircuits ==
    (last.op = "analyze" /\ last.fetch = "request_exception")
        => /\ DOMAIN scraped_data = {"website", "error"}
           /\ last.invoked = {"scrape_company_data"}
           /\ last.stored = None

C4_Witness ==
    /\ last.op = "analyze"
    /\ last.fetch = "request_exception"
    /\ scraped_data["website"] = "http://beta.com"
    /\ HasError(scraped_data)

\* C5: a profile returned by scrape_company_data has either the error key and
\* no extraction key, or no error key and all nine extraction keys.
C5_ProfileAllOrNothing ==
    scraped_data # None
        => \/ /\ "error" \in DOMAIN scraped_data
              /\ DOMAIN scraped_data \cap ExtractionKeys = {}
           \/ /\ "error" \notin DOMAIN scraped_data
              /\ ExtractionKeys \subseteq DOMAIN scraped_data

C5_Witness ==
    /\ last.op = "analyze"
    /\ last.fetch = "request_exception"
    /\ scraped_data["website"] = "https://acme.io"
    /\ DOMAIN scraped_data \cap ExtractionKeys = {}

\* C6: whenever a non-error analysis_result is displayed together with
\* scraped_data, it was derived from exactly that profile.
C6_ResultMatchesProfile ==
    display_analysis_results => result_src = scraped_data

\* C7 as claimed: after a successful scrape and score, insights are generated
\* iff (an e-mail or a phone number was found) and the industry is known.
C7_AnyContactTriggersInsights ==
    (Scored /\ ~HasError(analysis_result))
        => (Asked <=>
              /\ \/ Len(scraped_data["contact_emails"]) > 0
                 \/ Len(scraped_data["phone_numbers"]) > 0
              /\ scraped_data["industry"] # "Unknown")

\* C7 as amended: in app.py, after a successful scrape and score, insights are
\* generated iff a phone number was found and the industry is known; e-mail
\* addresses play no part.  ui.py never generates insights.
C7_PhoneTriggersInsights ==
    (Scored /\ ~HasError(analysis_result))
        => (Asked <=>
              /\ variant = "app"
              /\ Len(scraped_data["phone_numbers"]) > 0
              /\ scraped_data["industry"] # "Unknown")

C7_Witness ==
    /\ Scored
    /\ ~HasError(analysis_result)
    /\ variant = "app"
    /\ Len(scraped_data["contact_emails"]) > 0
    /\ Len(scraped_data["phone_numbers"]) = 0
    /\ scraped_data["industry"] # "Unknown"
    /\ ~Asked

\* C8: when the insight call raises or answers with text that does not parse,
\* the analysis_result already computed is unchanged, is not an error, is
\* passed to store_analysis and is displayed.
C8_InsightFailureKeepsScore ==
    (Asked /\ last.init_ok /\ last.ins_resp.kind # "object")
        => /\ analysis_result = last.returned
           /\ ~HasError(analysis_result)
           /\ Stored
           /\ last.stored.analysis_result = last.returned
           /\ last.stored.company_data = scraped_data
           /\ display_analysis_results

C8_Witness ==
    /\ Asked
    /\ last.init_ok
    /\ last.ins_resp.kind = "garbage"
    /\ analysis_result["lead_score"] = JInt(82)

\* the conclusion of C9: an explicit error without score, priority or risk
\* level, neither stored nor displayed
ExplicitScoringError ==
    /\ HasError(analysis_result)
    /\ DOMAIN analysis_result \cap {"lead_score", "priority", "risk_level"} = {}
    /\ ~Stored
    /\ last.stored = None
    /\ ~display_analysis_results

\* C9 as claimed: a backend call that raises, or a response that is no JSON
\* object with a numeric lead_score, ends in an explicit error value, and the
\* flow neither stores nor displays a score.
C9_NoNumericScoreIsError ==
    (Scored /\ last.init_ok /\
       (\/ last.resp.kind # "object"
        \/ "lead_score" \notin DOMAIN last.resp.obj
        \/ last.resp.obj["lead_score"].t # "int"))
        => ExplicitScoringError

\* C9 as amended: a backend call that raises, a response that is no JSON
\* object, or a lead_score that is present and that int() rejects, ends in an
\* explicit error value, and the flow neither stores nor displays a score.
\* (A JSON object without lead_score is scored 50.)
C9_UnusableResponseIsError ==
    (Scored /\ last.init_ok /\
       (\/ last.resp.kind # "object"
        \/ /\ "lead_score" \in DOMAIN last.resp.obj
           /\ LET v == last.resp.obj["lead_score"]
              IN  \/ v.t \in {"null", "obj"}
                  \/ v.t = "str" /\ v.v \notin DecimalStrings))
        => ExplicitScoringError

C9_Witness ==
    /\ Scored
    /\ last.init_ok
    /\ last.resp.kind = "object"
    /\ Get(last.resp.obj, "lead_score", JInt(0)) = JNull
    /\ HasError(analysis_result)

\* C10: every LeadScore returned without an 'error' key has a non-empty
\* rationale and a non-empty recommended_approach, also when the backend sent
\* them as null or as the empty string or not at all.
C10_TextsNonEmpty ==
    (Called /\ ~HasError(fn_out))
        => /\ "rationale" \in DOMAIN fn_out
           /\ IsText(fn_out["rationale"])
           /\ "recommended_approach" \in DOMAIN fn_out
           /\ IsText(fn_out["recommended_approach"])

\* --- direct calls (SpecCalls) ---
Returned(f) == fn_in.fn = f /\ fn_out # <<>>

NoDuplicates(xs) == Cardinality(Range(xs)) = Len(xs)

\* the number of digit characters of a text
DigitCount(s) == Cardinality({i \in DOMAIN s : s[i] \in Digits})

\* C11: for every markup _extract_emails returns at most 5 entries, no two
\* equal, and _extract_phones returns at most 3 entries, no two equal, each
\* with 8 to 15 digits.
C11_ExtractionCaps ==
    /\ Returned("emails")
        => \A k \in DOMAIN fn_out :
             Len(fn_out[k]) <= 5 /\ NoDuplicates(fn_out[k])
    /\ Returned("phones")
        => \A k \in DOMAIN fn_out :
             /\ Len(fn_out[k]) <= 3
             /\ NoDuplicates(fn_out[k])
             /\ \A j \in DOMAIN fn_out[k] :
                  DigitCount(fn_out[k][j]) \in 8 .. 15

\* six distinct addresses in the markup, five returned
C11_Witness ==
    /\ Returned("emails")
    /\ \A k \in 1 .. 6 : Contains(fn_in.content, Address(k))
    /\ Len(fn_out[1]) = 5
    /\ \A j \in 1 .. 5 : Contains(fn_in.content, fn_out[1][j])

\* the digits of a text, in order
RECURSIVE OnlyDigits(_)
OnlyDigits(s) ==
    IF s = <<>> THEN <<>>
    ELSE (IF Head(s) \in Digits THEN <<Head(s)>> ELSE <<>>)
         \o OnlyDigits(Tail(s))

\* C12: the page whose text is "We are a Series A SaaS startup, team of 45,
\* contact@acme.io, +1 415-555-0100" gives a profile with industry SaaS,
\* funding_stage Series A, team_size 45, contact_emails [contact@acme.io] and
\* exactly one phone number, +1 415-555-0100.
C12_AcmePageProfile ==
    (Returned("scrape") /\ fn_in.soup = SoupAcme)
        => LET profile == fn_out[1]
           IN  /\ profile["industry"] = <<"S", "a", "a", "S">>
               /\ profile["funding_stage"] = <<"S", "e", "r", "i", "e",
                   "s", " ", "A">>
               /\ profile["team_size"] = <<"4", "5">>
               /\ profile["contact_emails"] = <<<<"c", "o", "n", "t",
                   "a", "c", "t", "@", "a", "c", "m", "e", ".", "i",
                   "o">>>>
               /\ Len(profile["phone_numbers"]) = 1
               /\ OnlyDigits(profile["phone_numbers"][1]) = <<"1", "4",
                   "1", "5", "5", "5", "5", "0", "1", "0", "0">>

\* keyword kw stands in s at position i as a whole word
WholeWordAt(kw, s, i, ignore_case) ==
    /\ i + Len(kw) - 1 <= Len(s)
    /\ \A k \in DOMAIN kw :
         IF ignore_case THEN LowerChar(s[i + k - 1]) = LowerChar(kw[k])
         ELSE s[i + k - 1] = kw[k]
    /\ i = 1 \/ s[i - 1] \notin WordChars
    /\ i + Len(kw) > Len(s) \/ s[i + Len(kw)] \notin WordChars

\* the label of the earliest entry of the taxonomy with a whole-word match
EarliestLabel(table, s, ignore_case) ==
    LET hits == {n \in DOMAIN table :
                    \E k \in DOMAIN table[n].keywords, i \in 1 .. Len(s) :
                        WholeWordAt(table[n].keywords[k], s, i, ignore_case)}
    IN  IF hits = {} THEN Unknown
        ELSE table[CHOOSE n \in hits : \A m \in hits : n <= m].label

\* C13: _extract_industry and _estimate_funding_stage return the label of the
\* earliest taxonomy entry that has a whole-word keyword match in the text
\* (keywords as written for the industry, in any case for the funding stage),
\* 'Unknown' when there is none, and the same label on every call.
C13_EarliestTaxonomyEntry ==
    /\ Returned("industry")
        => \A k \in DOMAIN fn_out :
             fn_out[k] = EarliestLabel(industry_keywords, fn_in.content, FALSE)
    /\ Returned("funding_stage")
        => \A k \in DOMAIN fn_out :
             fn_out[k] = EarliestLabel(funding_stages, fn_in.content, TRUE)
    /\ (Returned("industry") \/ Returned("funding_stage"))
        => \A j, k \in DOMAIN fn_out : fn_out[j] = fn_out[k]

\* keywords of E-commerce, then of FinTech: FinTech, twice
C13_Witness ==
    /\ Returned("industry")
    /\ fn_in.content = <<"m", "a", "r", "k", "e", "t", "p", "l", "a",
                         "c", "e", ",", " ", "p", "a", "y", "m", "e",
                         "n", "t", "s">>
    /\ fn_out = <<<<"F", "i", "n", "T", "e", "c", "h">>,
                  <<"F", "i", "n", "T", "e", "c", "h">>>>

\* C14: _extract_social_media maps each platform to the first href, in
\* document order, that contains the platform token in any case; a later
\* anchor of a platform never replaces an earlier one.
C14_FirstAnchorWins ==
    Returned("social_media")
        => \A n \in DOMAIN platforms :
             LET hits == {i \in DOMAIN fn_in.anchors :
                            Contains(Lower(fn_in.anchors[i]), platforms[n])}
                 key == Title(platforms[n])
             IN  IF hits = {} THEN key \notin DOMAIN fn_out[1]
                 ELSE /\ key \in DOMAIN fn_out[1]
                      /\ fn_out[1][key] =
                           fn_in.anchors[CHOOSE i \in hits :
                                           \A j \in hits : i <= j]

\* the candidates of the markup: what the phone pattern matches as a whole
PhoneCandidates(content) == Range(FindAll(phone_pattern, content))

\* C17: _extract_phones returns exactly the candidates (the full matched
\* strings, stripped) whose digits number 8 to 15, up to de-duplication and
\* the cap of 3; '+1 415-555-0100' alone gives a non-empty result.
C17_AcceptsWholeCandidates ==
    Returned("phones")
        => LET accepted == {Strip(c) : c \in {d \in PhoneCandidates(fn_in.content) :
                                                DigitCount(d) \in 8 .. 15}}
           IN  /\ Range(fn_out[1]) \subseteq accepted
               /\ Len(fn_out[1]) =
                    (IF Cardinality(accepted) > 3 THEN 3
                     ELSE Cardinality(accepted))

Cues == {<<"t", "e", "a", "m", " ", "o", "f">>,
         <<"e", "m", "p", "l", "o", "y", "e", "e", "s">>,
         <<"m", "e", "m", "b", "e", "r", "s">>,
         <<"w", "e", " ", "a", "r", "e">>,
         <<"w", "e", " ", "h", "a", "v", "e">>}

\* the position of the first character after position i that is no whitespace
RECURSIVE SkipWhitespace(_, _)
SkipWhitespace(s, i) ==
    IF i <= Len(s) /\ s[i] \in Whitespace THEN SkipWhitespace(s, i + 1) ELSE i

\* the positions where a number stands that follows a cue phrase of s
CuedNumbers(s) ==
    {j \in DOMAIN s :
        /\ s[j] \in Digits
        /\ \E cue \in Cues, i \in DOMAIN s :
             /\ i + Len(cue) - 1 <= Len(s)
             /\ \A k \in DOMAIN cue : LowerChar(s[i + k - 1]) = cue[k]
             /\ SkipWhitespace(s, i + Len(cue)) = j}

\* C18: when a cue phrase is followed by a number or range,
\* _estimate_team_size returns that number or range, whatever its length and
\* whether or not a tier keyword is present; otherwise it returns the tier.
C18_CuedNumberWins ==
    Returned("team_size")
        => IF CuedNumbers(fn_in.content) = {}
           THEN fn_out[1] = FirstTier(size_tiers, fn_in.content)
           ELSE \E j \in CuedNumbers(fn_in.content) :
                  OccursAt(fn_out[1], fn_in.content, j)

\* C19: when the insight call raises or its answer does not parse,
\* generate_additional_insights returns no insight content: insights,
\* industry_trends and outreach_strategy are empty or absent.
C19_FailedInsightsAreEmpty ==
    (Returned("insights") /\ fn_in.init_ok /\ fn_in.resp.kind # "object")
        => \A k \in DOMAIN fn_out[1] : fn_out[1][k] = JStr("")

\* --- C15, C20 ---
\* the response is a JSON object with a score_breakdown of some of the criteria
PartialBreakdownSent ==
    /\ Called
    /\ fn_in.init_ok
    /\ fn_in.resp.kind = "object"
    /\ "score_breakdown" \in DOMAIN fn_in.resp.obj

\* the result is no error and carries the breakdown exactly as sent
BreakdownKept ==
    /\ ~HasError(fn_out)
    /\ "score_breakdown" \in DOMAIN fn_out
    /\ fn_out["score_breakdown"] = fn_in.resp.obj["score_breakdown"]

\* C15 as claimed: when the response parses and its score_breakdown has only
\* some of the seven criteria, analyze_company_profile returns a non-error
\* result whose score_breakdown is exactly the mapping sent.
C15_PartialBreakdownKept == PartialBreakdownSent => BreakdownKept

\* C15 as amended: the same, for a response whose lead_score is absent, an
\* integer or a decimal string; any other lead_score ends in the error of C9.
C15_PartialBreakdownKeptWhenScored ==
    (PartialBreakdownSent /\
       (\/ "lead_score" \notin DOMAIN fn_in.resp.obj
        \/ fn_in.resp.obj["lead_score"].t = "int"
        \/ /\ fn_in.resp.obj["lead_score"].t = "str"
           /\ fn_in.resp.obj["lead_score"].v \in DecimalStrings))
        => BreakdownKept

C15_Witness ==
    /\ PartialBreakdownSent
    /\ Get(fn_in.resp.obj, "lead_score", JNull) = JInt(100 + RawSpan)
    /\ fn_out["lead_score"] = JInt(100)
    /\ fn_out["score_breakdown"] = PartialBreakdown

\* a stored document is complete: a profile with every extraction key and no
\* error, and a result without error that was computed from that profile
CompleteRecord(doc) ==
    /\ ~HasError(doc.company_data)
    /\ ExtractionKeys \subseteq DOMAIN doc.company_data
    /\ ~HasError(doc.analysis_result)
    /\ doc.src = doc.company_data

\* C20: every record the analysis flow passes to store_analysis is complete,
\* and a request calls store_analysis at most once, and only after the scrape
\* and the scoring of that request succeeded.
C20_StoredRecordsComplete ==
    /\ \A i \in DOMAIN analyses : CompleteRecord(analyses[i])
    /\ last.op = "analyze"
        => /\ last.store_calls <= 1
           /\ last.store_calls = 1 <=> Stored
           /\ Stored
               => /\ CompleteRecord(last.stored)
                  /\ last.fetch = "ok"
                  /\ Scored
                  /\ ~HasError(last.returned)
                  /\ last.stored.company_data = scraped_data
                  /\ last.stored.analysis_result = last.returned

C20_Witness ==
    /\ Stored
    /\ last.store_calls = 1
    /\ Len(analyses) = 1
    /\ analyses[1] = last.stored
    /\ analyses[1].analysis_result["lead_score"] = JInt(82)

\* --- two runs on the same markup (SpecRuns) ---
\* C21: two runs of the extractors on the same markup and URL return the same
\* field values as sets; with more than 5 distinct addresses in the markup
\* both runs return the same 5 of them.
C21_RunsAgree == Len(fn_out) = 2 => fn_out[1] = fn_out[2]

\* --- C22, C23 ---
\* C22: every LeadScore that analyze_company_profile returns without an
\* 'error' key, on the normal and on the degraded path, has consistent bands:
\* priority High implies risk_level Low, risk_level High implies priority Low,
\* and (priority, risk_level) is never (High, Medium), (High, High) or
\* (Medium, High).
C22_BandsConsistent ==
    (Called /\ ~HasError(fn_out))
        => LET priority == fn_out["priority"].v
               risk_level == fn_out["risk_level"].v
           IN  /\ priority = "High" => risk_level = "Low"
               /\ risk_level = "High" => priority = "Low"
               /\ <<priority, risk_level>> \notin
                     {<<"High", "Medium">>, <<"High", "High">>,
                      <<"Medium", "High">>}

C22_Witness ==
    /\ Called
    /\ fn_in.init_ok
    /\ fn_in.resp.kind = "object"
    /\ Get(fn_in.resp.obj, "lead_score", JNull) = JInt(76)
    /\ Get(fn_in.resp.obj, "risk_level", JNull) = JStr("High")
    /\ fn_out["priority"] = JStr("High")
    /\ fn_out["risk_level"] = JStr("Low")
    /\ fn_out["lead_score"] = JInt(76)

\* C23: a backend response that parses as a JSON object without a lead_score
\* field is not an error: the result has lead_score 50, priority Low and
\* risk_level Medium, and the flow stores and displays it as it does a score
\* the backend supplied.
C23_MissingScoreDefaults ==
    (Scored /\ last.init_ok /\ last.resp.kind = "object"
            /\ "lead_score" \notin DOMAIN last.resp.obj)
        => /\ ~HasError(last.returned)
           /\ last.returned["lead_score"] = JInt(50)
           /\ last.returned["priority"] = JStr("Low")
           /\ last.returned["risk_level"] = JStr("Medium")
           /\ analysis_result = last.returned
           /\ Stored
           /\ last.stored.analysis_result = last.returned
           /\ display_analysis_results

C23_Witness ==
    /\ Scored
    /\ last.resp = RNoScore
    /\ analysis_result["lead_score"] = JInt(50)
    /\ Stored
    /\ Len(analyses) = 1
    /\ analyses[1].analysis_result["lead_score"] = JInt(50)

C30_RemainingIsExact ==
    /\ [](\A id \in DOMAIN fn_out.remaining : fn_out.remaining[id] \in 0 .. 2)
    /\ [][LET call == fn_out'.last
          IN  (fn_out'.calls # fn_out.calls
                 /\ call.fn = "verify_otp"
                 /\ call.found # None
                 /\ call.found._id \in DOMAIN fn_out.remaining
                 /\ call.clock <= call.found.expires_at)
              => LET n == fn_out.remaining[call.found._id]
                 IN  IF n = 0
                     THEN /\ call.result.message =
                               "Too many failed attempts. "
                               \o "Please request a new OTP"
                          /\ find_one(otp_collection', "email", call.email)
                               = None
                     ELSE /\ call.result.success <=> call.otp = call.found.otp
                          /\ ~call.result.success
                               => Announced(call.result.message) = {n - 1}
         ]_vars

C30_Witness ==
    /\ fn_out.last # None
    /\ fn_out.last.fn = "verify_otp"
    /\ fn_out.last.found # None
    /\ fn_out.last.otp = fn_out.last.found.otp
    /\ Get(fn_out.remaining, fn_out.last.found._id, 3) = 0
    /\ ~fn_out.last.result.success
    /\ otp_collection = <<>>

\* C25: at most 3 wrong guesses are ever compared with one issued OTP,
\* however the operations of concurrent verify_otp calls interleave.
C25_AtMostThreeWrongGuesses ==
    \A id \in DOMAIN fn_out.wrong : fn_out.wrong[id] <= 3

\* C26: the OTP collection never holds more than one record of an email,
\* however the operations of concurrent store_otp calls interleave.
C26_OneRecordPerEmail ==
    \A mail \in Mails :
        Cardinality(Matching(otp_collection, "email", mail)) <= 1

\* --- the authentication pages (SpecAuth) ---
\* C27: whenever the session is logged in, by password or by OTP, in either
\* variant, its username is not empty and names an existing account whose
\* email is verified; no analysis is stored under the empty username.
C27_LoggedInAsVerifiedAccount ==
    /\ logged_in =>
         /\ username # ""
         /\ \E i \in DOMAIN users_collection :
              /\ users_collection[i].username = username
              /\ users_collection[i].email_verified
    /\ \A i \in DOMAIN analyses : analyses[i].username # ""

\* C28: a logged-out session holds no analysis_result, scraped_data or
\* additional_insights, the step that logs a user in shows none, and the
\* history entries a logged-in user can load are the ones that user stored.
C28_NoResultsOfAnotherUser ==
    /\ [](~logged_in => /\ analysis_result = None
                        /\ scraped_data = None
                        /\ additional_insights = None)
    /\ [][(~logged_in /\ logged_in') => /\ analysis_result' = None
                                        /\ scraped_data' = None
                                        /\ additional_insights' = None]_vars
    /\ [](logged_in =>
            \A i \in DOMAIN analyses :
                analyses[i].username = username => owners[i] = account)

\* the account at position i is unverified and the session is not in the OTP
\* stage for its email, the only place from which verify_otp is called
Stranded(i) ==
    /\ ~users_collection[i].email_verified
    /\ ~(/\ otp_stage
         /\ Get(temp_user_data, "email", "") = users_collection[i].email)

\* C29: no account is left unverified outside the OTP stage of its email,
\* from where no action can verify it.
C29_NoAccountStranded ==
    \A i \in DOMAIN users_collection : ~Stranded(i)

\* a stranded account stays stranded, and its username and email stay
\* refused by add_user
StrandedForGood ==
    /\ [][\A i \in DOMAIN users_collection : Stranded(i) => Stranded(i)']_vars
    /\ [](\A i \in DOMAIN users_collection :
            Stranded(i) =>
              \A name \in {"alice", "bob"}, mail \in Mails :
                (name = users_collection[i].username
                   \/ mail = users_collection[i].email)
                => ~add_user(Database, name, mail, "secret1").result.success)

\* --- one request, call by call (SpecLive) ---
\* C16: every analysis request eventually completes, with a result or with an
\* error, also when the site or the backend never answers: the fetch and both
\* backend calls are cut off by a timeout.
C16_EveryRequestCompletes == <>(fn_out.pc = "done")

====
